---- MODULE Spec2Model ----
(***************************************************************************)
(* Model of mpt's run-time arithmetic/relational functor parser            *)
(* (include/mpt/arfunctors/parser.hpp) and of the run-time functor it      *)
(* returns (include/mpt/arfunctors/core/runtime_arfunctor.hpp).            *)
(*                                                                         *)
(* Spec      a parser object whose parse() is called on texts; one action  *)
(*           per iteration of parse_impl's token loop                      *)
(* FairSpec  Spec with weak fairness of the running call's steps           *)
(* SpecYard  the token visitor of parse_impl applied to token sequences    *)
(* SpecCall  calls through function_wrapper::operator()                    *)
(* SpecNode  life cycle of the runtime_arfunctor objects parse() returns   *)
(* SpecNum   calls of arithmetic_value_from_str (include/mpt/numstr.hpp)   *)
(* SpecCompose  run-time functors combined with the binary operators       *)
(* SpecEval  compile-time functors built and called on a record            *)
(* SpecThreads  threads calling the same functor                           *)
(* SpecIndex a multi_index built and asked for indices                     *)
(* SpecIter  loops over the proxy of an indexed container                  *)
(* SpecShift arithmetic on the iterators of an indexed container           *)
(* SpecOperator  Spec on texts written with operator characters            *)
(* SpecEnum  a smart enumeration converted from and to strings             *)
(***************************************************************************)
EXTENDS Integers, Sequences, FiniteSets, TLC

VARIABLES
    functor_map,     \* parser::m_functor_map: name -> registered functor
    function_map,    \* parser::m_function_map: name -> registered function
    view,            \* token_reader::m_view, a sequence of characters
    m_it,            \* token_reader::m_it, as an index 1 .. Len(view) + 1
    eofbit,          \* std::ios_base::eofbit of the reader
    tk,              \* parse_impl's variable tk
    output_queue,    \* parse_impl's output_queue (front first)
    operator_stack,  \* parse_impl's operator_stack (top last)
    pc,              \* position of the running call
    result,          \* value returned by the call, or NoResult
    thrown,          \* message of the exception that left the call, or ""
    steps,           \* runs of the token loop's body in the running call
    fed,             \* tokens visited so far (input of the visitor)
    call,            \* last call through a function wrapper
    nodes,           \* runtime_arfunctor objects: name -> object
    heap,            \* payloads allocated with new: id -> state
    str,             \* memory holding the text given to arithmetic_value_from_str
    size,            \* std::string_view::size() of that argument
    number,          \* what arithmetic_value_from_str gave, or NoNumber
    objects,         \* run-time functors of a program that composes them: name -> object
    cells,           \* the wrappers those functors allocated with new: id -> wrapper
    expression,      \* a compile-time functor built by a program, or NoExpression
    arguments,       \* the record that functor is called on
    returned,        \* what the call gave, or NotCalled
    threads,         \* the calls of that functor in progress: thread -> call
    sizes,           \* the sizes a multi_index was built from
    m_products,      \* multi_index::m_products
    m_size,          \* multi_index::m_size
    indexed,         \* what the last call of at or unravel gave, or NotIndexed
    container,       \* the indexed container a loop goes through and the loop's direction, or NoContainer
    m_pos,           \* base_indexed_container_iterator::m_pos of the loop's iterator
    last,            \* m_pos of the iterator the loop compares with
    visited,         \* the indices the loop dereferenced, in order
    shift,           \* the last arithmetic done on the iterator and what it gave, or NoShift
    declaration,     \* the arguments of MPT_SMART_ENUM that declared an enumeration
    names_with_unknown,  \* properties::names_with_unknown of that enumeration
    converted        \* what the last conversion gave, or NotConverted

numstr_vars == << str, size, number >>
compose_vars == << objects, cells >>
eval_vars == << expression, arguments, returned, threads >>
index_vars == << sizes, m_products, m_size, indexed >>
iter_vars == << container, m_pos, last, visited, shift >>
enum_vars == << declaration, names_with_unknown, converted >>
util_vars == << index_vars, iter_vars, enum_vars >>
lib_vars == << numstr_vars, compose_vars, eval_vars, util_vars >>

vars == << functor_map, function_map, view, m_it, eofbit, tk, output_queue,
           operator_stack, pc, result, thrown, steps, fed, call, nodes, heap,
           lib_vars >>

parser_vars == << functor_map, function_map >>
reader_vars == << view, m_it, eofbit, tk >>
yard_vars == << output_queue, operator_stack >>
node_vars == << nodes, heap >>

(***************************************************************************)
(* Bounds of the model                                                     *)
(***************************************************************************)
MaxLen == 3        \* longest text given to parse()
MaxSteps == 5      \* the count of loop-body runs saturates here
MaxTokens == 5     \* longest token sequence given to the visitor
MaxArity == 3      \* largest number of parameters of a registered callable
MaxPayloads == 5   \* payload ids available to new
MaxLiteral == 5    \* longest text given to arithmetic_value_from_str
MaxBeyond == 1     \* most characters in memory between a view's end and the terminator
MaxCells == 9      \* wrappers a program that composes run-time functors can allocate

(***************************************************************************)
(* Characters                                                              *)
(***************************************************************************)
Alphabet == {"x", "y", "f", "1", "(", ")", ",", " ", "+"}

\* <cctype> on the characters of the alphabet
isblank(c) == c = " "
Digits == {"0", "1", "2", "3", "4", "5", "6", "7", "8", "9"}
isdigit(c) == c \in Digits
isalpha(c) == c \in {"x", "y", "f"}
isalnum(c) == isalpha(c) \/ isdigit(c)

RECURSIVE TextsOfLength(_)
TextsOfLength(n) ==
    IF n = 0 THEN { << >> }
    ELSE { Append(t, c) : t \in TextsOfLength(n - 1), c \in Alphabet }

Texts == UNION { TextsOfLength(n) : n \in 0 .. MaxLen }

(***************************************************************************)
(* numstr.hpp: the state of a conversion, an io_bit_state, by its fields   *)
(***************************************************************************)
\* the character after the last one of a std::string or a string literal
NUL == "NUL"

isspace(c) == c \in {" ", "\t", "\n"}

\* value_type(*it) - base
digit_value(c) ==
    CASE c = "0" -> 0 [] c = "1" -> 1 [] c = "2" -> 2 [] c = "3" -> 3 [] c = "4" -> 4
      [] c = "5" -> 5 [] c = "6" -> 6 [] c = "7" -> 7 [] c = "8" -> 8 [] c = "9" -> 9

\* *it for an iterator of the view: the memory goes on after the view's end,
\* up to the terminator
Deref(s, it) == IF it <= Len(s) THEN s[it] ELSE NUL

integral == 0
floating_point == 1
normal_value == 0
long_value == 1
long_long_value == 2
single_precision_floating_point == 3
signed_integral == 0
unsigned_integral == 1
positive == 0
negative == 1
positive_exponent == 0
negative_exponent == 1

\* the fields bit_helper_t's masks and offsets cut out of an io_bit_state
io_bit_state(x) ==
    [ data_type |-> x % 16,
      precision |-> (x \div 16) % 16,
      integral_sign |-> (x \div 256) % 16,
      value_sign |-> (x \div 4096) % 16,
      exponent_sign |-> (x \div 65536) % 16,
      exponent_value |-> x \div 1048576 ]

unspecified_value_state == io_bit_state(0)

\* a character converted to io_bit_state (its code)
char_code(c) ==
    CASE c = "u" -> 117 [] c = "l" -> 108 [] c = "f" -> 102 [] c = "e" -> 101
      [] c = "." -> 46 [] c = "-" -> 45 [] c = "+" -> 43 [] c = " " -> 32
      [] c \in Digits -> 48 + digit_value(c)
      [] OTHER -> 0

set_integral(state) == [ state EXCEPT !.data_type = integral ]
is_integral(state) == state.data_type = integral
set_floating_point(state) == [ state EXCEPT !.data_type = floating_point ]
is_floating_point(state) == state.data_type = floating_point
set_unsigned(state) == [ state EXCEPT !.integral_sign = unsigned_integral ]
is_unsigned(state) == state.integral_sign = unsigned_integral
set_positive(state) == [ state EXCEPT !.value_sign = positive ]
set_negative(state) == [ state EXCEPT !.value_sign = negative ]
is_negative(state) == state.value_sign = negative
set_long(state) == [ state EXCEPT !.precision = long_value ]
set_long_long(state) == [ state EXCEPT !.precision = long_long_value ]
is_precision_set(state) == state.precision # normal_value
set_single_precision_floating_point(state) ==
    [ set_floating_point(state) EXCEPT !.precision = single_precision_floating_point ]
set_exponent_positive(state) == [ state EXCEPT !.exponent_sign = positive_exponent ]
set_exponent_negative(state) == [ state EXCEPT !.exponent_sign = negative_exponent ]
set_exponent_value(state, value) == [ state EXCEPT !.exponent_value = value ]
get_exponent(state) ==
    (IF state.exponent_sign = positive_exponent THEN 1 ELSE -1) * state.exponent_value

\* std::numeric_limits<FloatType>::max_exponent10
max_exponent10(FloatType) ==
    CASE FloatType = "float" -> 38
      [] FloatType = "double" -> 308
      [] FloatType = "long double" -> 4932

(***************************************************************************)
(* numstr.hpp: arithmetic_value_from_str                                   *)
(***************************************************************************)
NoNumber == [ type |-> "", value |-> 0, exponent |-> 0, thrown |-> "", outcome |-> "none" ]
Number(type, value, exponent) ==
    [ type |-> type, value |-> value, exponent |-> exponent, thrown |-> "",
      outcome |-> "returns" ]
NumberThrown(what) ==
    [ type |-> "", value |-> 0, exponent |-> 0, thrown |-> what, outcome |-> "throws" ]
\* the behaviour of the call is not defined
NumberUndefined(type) ==
    [ type |-> type, value |-> 0, exponent |-> 0, thrown |-> "", outcome |-> "undefined" ]

\* the loop of parse_raw_sanitized_integral, from the last digit to the first;
\* the digits of the model stay far from the width of every IntegralType
RECURSIVE parse_raw_sanitized_integral_loop(_, _, _, _)
parse_raw_sanitized_integral_loop(s, begin, it, value) ==
    LET i == it - 1
        v == 10 * value + digit_value(s[i])
    IN  IF i # begin THEN parse_raw_sanitized_integral_loop(s, begin, i, v) ELSE v

\* defined for begin < it
parse_raw_sanitized_integral(s, begin, it) ==
    parse_raw_sanitized_integral_loop(s, begin, it, 0)

integral_type(state) ==
    IF state.integral_sign = signed_integral
    THEN IF state.precision = long_long_value THEN "long long int"
         ELSE IF state.precision = long_value THEN "long int"
         ELSE "int"
    ELSE IF state.precision = long_long_value THEN "unsigned long long int"
         ELSE IF state.precision = long_value THEN "unsigned long int"
         ELSE "unsigned int"

\* with begin = end the do-while of parse_raw_sanitized_integral starts before
\* begin and never meets it
integral_value_impl(s, state, begin, end) ==
    IF begin = end
    THEN NumberUndefined(integral_type(state))
    ELSE Number(integral_type(state), parse_raw_sanitized_integral(s, begin, end), 0)

\* the loop of parse_floating_point_value: << value, exponent, decimal >>
RECURSIVE parse_floating_point_value_loop(_, _, _, _, _, _)
parse_floating_point_value_loop(s, it, end, value, exponent, decimal) ==
    IF it = end
    THEN [ value |-> value, exponent |-> exponent ]
    ELSE IF isdigit(s[it])
         THEN parse_floating_point_value_loop(s, it + 1, end, 10 * value + digit_value(s[it]),
                                              IF decimal THEN exponent - 1 ELSE exponent,
                                              decimal)
         ELSE parse_floating_point_value_loop(s, it + 1, end, value, exponent, TRUE)

parse_floating_point_value(FloatType, s, state, begin, end) ==
    IF get_exponent(state) > max_exponent10(FloatType)
    THEN NumberThrown("Exponent is larger than the maximum allowed for the given precision")
    ELSE LET l == parse_floating_point_value_loop(s, begin, end, 0, get_exponent(state), FALSE)
             value == IF is_negative(state) THEN l.value * (-1) ELSE l.value
         IN  \* exponent != 0 ? value : value * std::pow(10, exponent)
             Number(FloatType, IF l.exponent # 0 THEN value ELSE value * 1,
                    get_exponent(state))

floating_point_value_impl(s, state, begin, end) ==
    IF state.precision = single_precision_floating_point
    THEN parse_floating_point_value("float", s, state, begin, end)
    ELSE IF state.precision = long_value
         THEN parse_floating_point_value("double", s, state, begin, end)
         ELSE parse_floating_point_value("long double", s, state, begin, end)

Scanned(it, state, what) == [ it |-> it, state |-> state, thrown |-> what ]

\* the loop that determines the sign of the value
RECURSIVE scan_sign(_, _, _, _)
scan_sign(s, end, it, state) ==
    IF it = end
    THEN Scanned(it, state, "")
    ELSE IF isspace(s[it])
         THEN scan_sign(s, end, it + 1, state)
         ELSE IF s[it] = "-"
              THEN scan_sign(s, end, it + 1,
                             IF is_negative(state) THEN set_positive(state)
                             ELSE set_negative(state))
              ELSE IF s[it] = "+"
                   THEN scan_sign(s, end, it + 1, state)
                   ELSE Scanned(it, state, "")

\* the lambda that determines where the number without suffixes ends
RECURSIVE raw_number_end(_, _, _, _)
raw_number_end(s, end, it, state) ==
    IF it = end
    THEN Scanned(it, state, "")
    ELSE IF isdigit(s[it])
         THEN raw_number_end(s, end, it + 1, state)
         ELSE IF s[it] = "."
              THEN IF is_integral(state)
                   THEN raw_number_end(s, end, it + 1, set_floating_point(state))
                   ELSE Scanned(it, state, "Repeated colon in floating-point value")
              ELSE Scanned(it, state, "")

\* do { ++it; } while ( it != end && std::isdigit(*it) ), after the ++it
RECURSIVE exponent_end(_, _, _)
exponent_end(s, end, it) ==
    IF it # end /\ isdigit(Deref(s, it)) THEN exponent_end(s, end, it + 1) ELSE it

\* the branch taken at 'e' or 'E'; it is at that character
parse_exponent(s, end, it, state) ==
    LET st == set_floating_point(state)
        i1 == it + 1
        valued(begin, signed) ==
            LET e == exponent_end(s, end, begin + 1)
            IN  Scanned(e, set_exponent_value(signed, parse_raw_sanitized_integral(s, begin, e)), "")
    IN  IF i1 = end
        THEN Scanned(i1, st, "Exponent has no digits")
        ELSE IF Deref(s, i1) = "-"
             THEN IF ~isdigit(Deref(s, i1 + 1))
                  THEN Scanned(i1 + 1, st, "Exponent has no digits")
                  ELSE valued(i1 + 1, set_exponent_negative(st))
             ELSE IF Deref(s, i1) = "+"
                  THEN IF ~isdigit(Deref(s, i1 + 1))
                       THEN Scanned(i1 + 1, st, "Exponent has no digits")
                       ELSE valued(i1 + 1, set_exponent_positive(st))
                  ELSE IF isdigit(Deref(s, i1))
                       THEN valued(i1, set_exponent_positive(st))
                       ELSE Scanned(i1, st, "Unrecognized exponent")

\* the loop over the suffix
RECURSIVE parse_suffix(_, _, _, _)
parse_suffix(s, end, it, state) ==
    IF it = end
    THEN Scanned(it, state, "")
    ELSE LET c == Deref(s, it)
         IN  IF c \in {"e", "E"}
             THEN Scanned(it, state,
                          IF is_integral(state)
                          THEN "Invalid use of scientific notation in integral value type"
                          ELSE "Repeated scientific floating-point specifier")
             ELSE IF c = "."
             THEN Scanned(it, state,
                          IF is_integral(state)
                          THEN "Invalid use of colon in integral value type"
                          ELSE "Invalid use of colon in the suffix of a floating-point type")
             ELSE IF c = "u"
             THEN IF is_floating_point(state)
                  THEN Scanned(it, state, "Invalid use of the u suffix in floating-point type")
                  ELSE IF is_unsigned(io_bit_state(char_code(c)))   \* is_unsigned(*it)
                       THEN Scanned(it, state, "Repeated u specifier in suffix")
                       ELSE parse_suffix(s, end, it + 1, set_unsigned(set_integral(state)))
             ELSE IF c = "l"
             THEN IF is_precision_set(state)
                  THEN Scanned(it, state, "Additional use of the l specifier")
                  ELSE IF is_floating_point(state)
                       THEN parse_suffix(s, end, it + 1, set_long_long(state))
                       ELSE IF it + 1 # end /\ Deref(s, it + 1) = "l"
                            THEN parse_suffix(s, end, it + 2, set_long_long(set_long(state)))
                            ELSE parse_suffix(s, end, it + 1, set_long(state))
             ELSE IF c = "f"
             THEN IF is_precision_set(state)
                  THEN Scanned(it, state,
                               "Invalid use of the single-precision floating-point specifier")
                  ELSE parse_suffix(s, end, it + 1, set_single_precision_floating_point(state))
             ELSE Scanned(it, state, "")

\* arithmetic_value_from_str(std::string_view) on the first n characters of s
arithmetic_value_from_str(s, n) ==
    LET end == n + 1
        sign == scan_sign(s, end, 1, unspecified_value_state)
        start == sign.it
        raw == raw_number_end(s, end, start, sign.state)
        exp == IF Deref(s, raw.it) \in {"e", "E"}
               THEN parse_exponent(s, end, raw.it, raw.state)
               ELSE Scanned(raw.it, raw.state, "")
        suffix == parse_suffix(s, end, exp.it, exp.state)
        state == IF ~is_precision_set(suffix.state) /\ is_floating_point(suffix.state)
                 THEN set_long(suffix.state)
                 ELSE suffix.state
    IN  IF sign.it = end THEN NumberThrown("Missing number")
        ELSE IF raw.thrown # "" THEN NumberThrown(raw.thrown)
        ELSE IF exp.thrown # "" THEN NumberThrown(exp.thrown)
        ELSE IF suffix.thrown # "" THEN NumberThrown(suffix.thrown)
        ELSE IF is_integral(state)
             THEN integral_value_impl(s, state, start, raw.it)
             ELSE floating_point_value_impl(s, state, start, raw.it)

NumstrIdle ==
    /\ str = << >>
    /\ size = 0
    /\ number = NoNumber

ComposeIdle ==
    /\ objects = << >>
    /\ cells = << >>

NoExpression == [ operator |-> "none", acc |-> "", value |-> 0, operands |-> << >> ]
NotCalled == [ ok |-> FALSE, called |-> FALSE, value |-> 0 ]

EvalIdle ==
    /\ expression = NoExpression
    /\ arguments = << >>
    /\ returned = NotCalled
    /\ threads = << >>

NotIndexed == [ call |-> "none", dim |-> 0, index |-> 0, value |-> << >> ]
NoContainer == [ size |-> 0, direction |-> "none" ]
NoShift == [ op |-> "none", v |-> 0, to |-> 0 ]
NotConverted == [ call |-> "none", str |-> << >>, e |-> 0, thrown |-> FALSE ]

IndexIdle ==
    /\ sizes = << >>
    /\ m_products = << >>
    /\ m_size = 0
    /\ indexed = NotIndexed

IterIdle ==
    /\ container = NoContainer
    /\ m_pos = 0
    /\ last = 0
    /\ visited = << >>
    /\ shift = NoShift

NoDeclaration == [ unknown |-> << >>, names |-> << >>, separator |-> << >> ]

EnumIdle ==
    /\ declaration = NoDeclaration
    /\ names_with_unknown = << >>
    /\ converted = NotConverted

UtilIdle == IndexIdle /\ IterIdle /\ EnumIdle

LibIdle == NumstrIdle /\ ComposeIdle /\ EvalIdle /\ UtilIdle

(***************************************************************************)
(* Input records and functors                                              *)
(***************************************************************************)
Records == [ {"x", "y"} -> 0 .. 1 ]

\* A registered functor: the field it reads and its call signature
Functor(acc, sig) == [ acc |-> acc, sig |-> sig ]

\* A registered function: the callable and the number of its parameters
Function(fn, n) == [ fn |-> fn, number_of_arguments |-> n ]

MaximumNumberOfArguments == 16

(***************************************************************************)
(* Tokens: the alternatives of token_reader::value_type, and the operator  *)
(* types the visitor of parse_impl has a branch for                        *)
(***************************************************************************)
Token(kind, name, sig, n) == [ kind |-> kind, name |-> name, sig |-> sig, n |-> n ]

null_token == Token("null", "", "", 0)
left_parenthesis_token == Token("left_parenthesis", "", "", 0)
right_parenthesis_token == Token("right_parenthesis", "", "", 0)
comma_token == Token("comma", "", "", 0)
arithmetic_token(lit) == Token("arithmetic", lit, "", 0)
functor_token(f) == Token("functor", f.acc, f.sig, 0)
function_token(f) == Token("function", f.fn, "", f.number_of_arguments)
operator_token(chars) == Token("operator", chars, "", 0)

NoResult == [ acc |-> "", sig |-> "" ]

(***************************************************************************)
(* token_reader                                                            *)
(***************************************************************************)
\* What one member function of the reader leaves behind: the token it
\* returns, the cursor, and the message of the exception it throws ("" if none)
Read(token, it, message) == [ tk |-> token, it |-> it, thrown |-> message ]

\* while ( m_it != cend && std::isblank(*m_it) ) ++m_it;
RECURSIVE skip_blanks(_, _)
skip_blanks(v, it) ==
    IF it <= Len(v) /\ isblank(v[it]) THEN skip_blanks(v, it + 1) ELSE it

\* std::find_if_not(first, cend, isalnum or '_')
RECURSIVE find_if_not_alnum(_, _)
find_if_not_alnum(v, first) ==
    IF first <= Len(v) /\ (isalnum(v[first]) \/ v[first] = "_")
    THEN find_if_not_alnum(v, first + 1)
    ELSE first

parse_number(v, it) == Read(null_token, it, "")

\* parse_functor_or_function searching the function map before the functor map
parse_function_or_functor(v, it, functors, functions) ==
    LET start == it
        end == find_if_not_alnum(v, it + 1)
        name == SubSeq(v, start, end - 1)
    IN  IF name \in DOMAIN functions
        THEN Read(function_token(functions[name]), it + 1, "")
        ELSE IF name \in DOMAIN functors
        THEN Read(functor_token(functors[name]), it + 1, "")
        ELSE Read(null_token, it + 1, "not found")

parse_functor_or_function(v, it, functors, functions) ==
    LET start == it
        end == find_if_not_alnum(v, it + 1)
        name == SubSeq(v, start, end - 1)
    IN  IF name \in DOMAIN functors
        THEN Read(functor_token(functors[name]), it + 1, "")
        ELSE IF name \in DOMAIN functions
        THEN Read(function_token(functions[name]), it + 1, "")
        ELSE Read(null_token, it + 1, "not found")

parse_comma(v, it) == Read(null_token, it + 1, "")

parse_operator(v, it) ==
    IF v[it] = "(" THEN Read(left_parenthesis_token, it + 1, "")
    ELSE IF v[it] = ")" THEN Read(right_parenthesis_token, it + 1, "")
    ELSE Read(null_token, it, "")

\* token_reader::operator>>: the reader's cursor, eofbit and the caller's tk
\* after the call; delivered says whether a token was assigned to tk
read_token(v, it0, eof0, tk0, functors, functions) ==
    LET cend == Len(v) + 1
        it == skip_blanks(v, it0)
    IN  IF it = cend
        THEN [ tk |-> tk0, it |-> it, eofbit |-> TRUE, thrown |-> "",
               delivered |-> FALSE ]
        ELSE LET r == IF isdigit(v[it]) THEN parse_number(v, it)
                      ELSE IF isalpha(v[it]) \/ v[it] = "_"
                      THEN parse_functor_or_function(v, it, functors, functions)
                      ELSE IF v[it] = "," THEN parse_comma(v, it)
                      ELSE parse_operator(v, it)
             IN  IF r.thrown # ""
                 THEN [ tk |-> tk0, it |-> r.it, eofbit |-> eof0,
                        thrown |-> r.thrown, delivered |-> FALSE ]
                 ELSE [ tk |-> r.tk, it |-> r.it,
                        eofbit |-> (eof0 \/ r.it = cend), thrown |-> "",
                        delivered |-> TRUE ]

\* token_reader::operator bool
good(eof) == ~eof

(***************************************************************************)
(* parse_impl: the visitor of the token loop                               *)
(***************************************************************************)
Top(s) == s[Len(s)]
Pop(s) == SubSeq(s, 1, Len(s) - 1)

\* The queue and the stack a branch leaves behind, and the exception it throws
Yard(oq, os, message) == [ output_queue |-> oq, operator_stack |-> os, thrown |-> message ]

token_is_of_kind(kind, t) == t.kind = kind
token_is_function(t) == t.kind = "function"

\* Operator::precedence; higher binds tighter
precedence(chars) == IF chars = "*" THEN 2 ELSE 1

determine_precedence(t) ==
    IF t.kind = "operator"
    THEN [ value |-> precedence(t.name), thrown |-> "" ]
    ELSE [ value |-> 0, thrown |-> "Missing parenthesis" ]

\* comma branch: while ( !empty && top is a left parenthesis ) move top to the queue
RECURSIVE visit_comma(_, _)
visit_comma(oq, os) ==
    IF os # << >> /\ token_is_of_kind("left_parenthesis", Top(os))
    THEN visit_comma(Append(oq, Top(os)), Pop(os))
    ELSE Yard(oq, os, "")

\* right parenthesis branch, the do ... while loop
RECURSIVE pop_until_left_parenthesis(_, _)
pop_until_left_parenthesis(oq, os) ==
    IF os = << >> THEN Yard(oq, os, "Mismatched parenthesis")
    ELSE LET oq1 == Append(oq, Top(os))
             os1 == Pop(os)
         IN  IF os1 # << >> /\ token_is_of_kind("left_parenthesis", Top(os1))
             THEN pop_until_left_parenthesis(oq1, os1)
             ELSE Yard(oq1, os1, "")

visit_right_parenthesis(oq, os) ==
    LET a == pop_until_left_parenthesis(oq, os)
    IN  IF a.thrown # "" THEN a
        ELSE IF a.operator_stack = << >>
        THEN Yard(a.output_queue, a.operator_stack, "Mismatched parenthesis")
        ELSE LET os1 == Pop(a.operator_stack)
             IN  IF os1 # << >> /\ token_is_function(Top(os1))
                 THEN Yard(Append(a.output_queue, Top(os1)), Pop(os1), "")
                 ELSE Yard(a.output_queue, os1, "")

\* operator branch: the while loop, then the push
RECURSIVE pop_for_operator(_, _, _)
pop_for_operator(oq, os, v) ==
    IF os # << >> /\ token_is_of_kind("left_parenthesis", Top(os))
    THEN LET top == determine_precedence(Top(os))
             new == determine_precedence(v)
         IN  IF top.thrown # "" THEN Yard(oq, os, top.thrown)
             ELSE IF new.thrown # "" THEN Yard(oq, os, new.thrown)
             ELSE IF top.value < new.value
             THEN pop_for_operator(Append(oq, Top(os)), Pop(os), v)
             ELSE Yard(oq, os, "")
    ELSE Yard(oq, os, "")

visit_operator(oq, os, v) ==
    LET a == pop_for_operator(oq, os, v)
    IN  IF a.thrown # "" THEN a
        ELSE Yard(a.output_queue, Append(a.operator_stack, v), "")

\* The lambda given to std::visit in the token loop
visit(v, oq, os) ==
    IF v.kind = "arithmetic" THEN Yard(Append(oq, v), os, "")
    ELSE IF v.kind = "functor" THEN Yard(Append(oq, v), os, "")
    ELSE IF v.kind = "function" THEN Yard(oq, Append(os, v), "")
    ELSE IF v.kind = "comma" THEN visit_comma(oq, os)
    ELSE IF v.kind = "left_parenthesis" THEN Yard(oq, Append(os, v), "")
    ELSE IF v.kind = "right_parenthesis" THEN visit_right_parenthesis(oq, os)
    ELSE IF v.kind = "operator" THEN visit_operator(oq, os, v)
    ELSE Yard(oq, os, "")

\* The loop after the token loop: move what is left on the stack to the queue
RECURSIVE drain(_, _)
drain(oq, os) ==
    IF os = << >> THEN Yard(oq, os, "")
    ELSE IF token_is_of_kind("left_parenthesis", Top(os))
            \/ token_is_of_kind("right_parenthesis", Top(os))
    THEN Yard(oq, os, "Mismatched parenthesis")
    ELSE drain(Append(oq, Top(os)), Pop(os))

\* The return statement: a copy of functors.at("x"), whatever the queue holds
parse_return(functors, oq) ==
    IF << "x" >> \in DOMAIN functors
    THEN [ value |-> functors[<< "x" >>], thrown |-> "" ]
    ELSE [ value |-> NoResult, thrown |-> "map::at" ]

(***************************************************************************)
(* The parser object and its parse()                                       *)
(***************************************************************************)
\* Maps given to make_parser: names are sequences of characters
Registry(functors, functions) == [ functors |-> functors, functions |-> functions ]

Registries ==
    { Registry(<< "x" >> :> Functor("x", "float") @@ << "y" >> :> Functor("y", "float"),
               << "f" >> :> Function("f", 3)),
      Registry(<< "x" >> :> Functor("x", "float") @@ << "x", "y" >> :> Functor("y", "float"),
               << "x" >> :> Function("g", 1) @@ << "y" >> :> Function("f", 2)),
      Registry(<< "y" >> :> Functor("y", "float"),
               << "f" >> :> Function("f", 3)) }

NoCall == [ fn |-> "", number_of_arguments |-> 0, args |-> << >>, value |-> 0, thrown |-> "" ]

InitParser ==
    \E reg \in Registries :
        /\ functor_map = reg.functors
        /\ function_map = reg.functions

InitCallState ==
    /\ view = << >>
    /\ m_it = 1
    /\ eofbit = FALSE
    /\ tk = null_token
    /\ output_queue = << >>
    /\ operator_stack = << >>
    /\ pc = "idle"
    /\ result = NoResult
    /\ thrown = ""
    /\ steps = 0

Init ==
    /\ InitParser
    /\ InitCallState
    /\ fed = << >>
    /\ call = NoCall
    /\ nodes = << >>
    /\ heap = << >>
    /\ LibIdle

\* parser::parse called on a text: parse_impl up to the token loop
Parse(text) ==
    /\ pc = "idle"
    /\ view' = text
    /\ m_it' = 1
    /\ eofbit' = FALSE
    /\ tk' = null_token
    /\ output_queue' = << >>
    /\ operator_stack' = << >>
    /\ pc' = "loop"
    /\ result' = NoResult
    /\ thrown' = ""
    /\ steps' = 0
    /\ UNCHANGED << lib_vars, parser_vars, fed, call, node_vars >>

\* reader >> tk of the running call
NextRead == read_token(view, m_it, eofbit, tk, functor_map, function_map)

\* tk = ... assigns a functor to a tk that holds a functor of the same
\* signature: the variant calls runtime_arfunctor::operator=(runtime_arfunctor &&),
\* which ends without a return statement
AssignsFunctorToFunctor(r) ==
    /\ r.delivered
    /\ tk.kind = "functor"
    /\ r.tk.kind = "functor"
    /\ r.tk.sig = tk.sig

Inc(n) == IF n < MaxSteps THEN n + 1 ELSE MaxSteps

\* reader >> tk throws: the exception leaves parse
ReadThrows ==
    /\ pc = "loop"
    /\ NextRead.thrown # ""
    /\ m_it' = NextRead.it
    /\ pc' = "thrown"
    /\ thrown' = NextRead.thrown
    /\ UNCHANGED << lib_vars, parser_vars, view, eofbit, tk, yard_vars, result, steps, fed,
                    call, node_vars >>

\* the assignment to tk runs off the end of operator= and the build traps there
AssignTraps ==
    /\ pc = "loop"
    /\ NextRead.thrown = ""
    /\ AssignsFunctorToFunctor(NextRead)
    /\ m_it' = NextRead.it
    /\ pc' = "crashed"
    /\ UNCHANGED << lib_vars, parser_vars, view, eofbit, tk, yard_vars, result, thrown, steps,
                    fed, call, node_vars >>

\* reader >> tk leaves the reader not good(): the token loop ends
LoopEnds ==
    /\ pc = "loop"
    /\ NextRead.thrown = ""
    /\ ~good(NextRead.eofbit)
    /\ m_it' = NextRead.it
    /\ eofbit' = NextRead.eofbit
    /\ tk' = NextRead.tk
    /\ pc' = "drain"
    /\ UNCHANGED << lib_vars, parser_vars, view, yard_vars, result, thrown, steps, fed, call,
                    node_vars >>

\* reader >> tk leaves the reader good(): the body of the token loop runs on tk
LoopBody ==
    /\ pc = "loop"
    /\ NextRead.thrown = ""
    /\ good(NextRead.eofbit)
    /\ m_it' = NextRead.it
    /\ eofbit' = NextRead.eofbit
    /\ tk' = NextRead.tk
    /\ steps' = Inc(steps)
    /\ LET y == visit(NextRead.tk, output_queue, operator_stack)
       IN  /\ output_queue' = y.output_queue
           /\ operator_stack' = y.operator_stack
           /\ thrown' = y.thrown
           /\ pc' = IF y.thrown # "" THEN "thrown" ELSE "loop"
    /\ UNCHANGED << lib_vars, parser_vars, view, result, fed, call, node_vars >>

\* the loop that empties the operator stack, and the return statement
Drain ==
    /\ pc = "drain"
    /\ LET d == drain(output_queue, operator_stack)
           r == parse_return(functor_map, d.output_queue)
       IN  /\ output_queue' = d.output_queue
           /\ operator_stack' = d.operator_stack
           /\ thrown' = IF d.thrown # "" THEN d.thrown ELSE r.thrown
           /\ result' = IF d.thrown # "" THEN NoResult ELSE r.value
           /\ pc' = IF d.thrown # "" \/ r.thrown # "" THEN "thrown" ELSE "returned"
    /\ UNCHANGED << lib_vars, parser_vars, reader_vars, steps, fed, call, node_vars >>

\* the caller has the returned functor or has caught the exception: the
\* locals of parse_impl are gone and the parser can be called again
Finish ==
    /\ pc \in {"returned", "thrown"}
    /\ view' = << >>
    /\ m_it' = 1
    /\ eofbit' = FALSE
    /\ tk' = null_token
    /\ output_queue' = << >>
    /\ operator_stack' = << >>
    /\ pc' = "idle"
    /\ result' = NoResult
    /\ thrown' = ""
    /\ steps' = 0
    /\ UNCHANGED << lib_vars, parser_vars, fed, call, node_vars >>

\* a step of the running call
CallStep == ReadThrows \/ AssignTraps \/ LoopEnds \/ LoopBody \/ Drain

\* what a running call reads and writes
call_state == << reader_vars, yard_vars, pc, result, thrown >>

Next ==
    \/ \E text \in Texts : Parse(text)
    \/ Finish
    \/ ReadThrows
    \/ AssignTraps
    \/ LoopEnds
    \/ LoopBody
    \/ Drain

Spec == Init /\ [][Next]_vars

\* parse is one synchronous call: once called it keeps running
FairSpec == Spec /\ WF_vars(CallStep)

(***************************************************************************)
(* Evaluation of functors                                                  *)
(***************************************************************************)
\* runtime_arfunctor::operator() on a functor that reads a field of the record
call_functor(f, r) == r[f.acc]

\* Compile-time functors: a user functor, an arithmetic value in an
\* arfunctor_wrapper, or a composed_arfunctor of an operator and its operands
functor_leaf(acc) == [ operator |-> "functor", acc |-> acc, value |-> 0, operands |-> << >> ]
arithmetic_leaf(n) == [ operator |-> "arithmetic", acc |-> "", value |-> n, operands |-> << >> ]
make_composed_arfunctor(op, operands) ==
    [ operator |-> op, acc |-> "", value |-> 0, operands |-> operands ]

\* The call operators of the operator structs
apply_operator(op, a) ==
    IF op = "add" THEN a[1] + a[2]
    ELSE IF op = "sub" THEN a[1] - a[2]
    ELSE IF op = "mul" THEN a[1] * a[2]
    ELSE IF op = "unary_minus" THEN 0 - a[1]
    ELSE IF op = "in_range" THEN (IF a[2] > a[1] /\ a[2] < a[3] THEN 1 ELSE 0)
    ELSE IF op = "abs" THEN (IF a[1] > 0 THEN a[1] ELSE 0 - a[1])
    ELSE a[1]

\* composed_arfunctor::operator() and arfunctor_wrapper::operator()
RECURSIVE evaluate(_, _)
evaluate(f, r) ==
    IF f.operator = "functor" THEN r[f.acc]
    ELSE IF f.operator = "arithmetic" THEN f.value
    ELSE apply_operator(f.operator,
                        [ i \in DOMAIN f.operands |-> evaluate(f.operands[i], r) ])

(***************************************************************************)
(* Claims about parse()                                                    *)
(***************************************************************************)
RECURSIVE ParenthesisDepth(_, _, _)
\* depth of parentheses after the characters i .. Len(v), -1 once a right
\* parenthesis has no left parenthesis before it
ParenthesisDepth(v, i, depth) ==
    IF depth < 0 \/ i > Len(v) THEN depth
    ELSE ParenthesisDepth(v, i + 1,
                          IF v[i] = "(" THEN depth + 1
                          ELSE IF v[i] = ")" THEN depth - 1 ELSE depth)

Balanced(v) == ParenthesisDepth(v, 1, 0) = 0

IsParenthesis(t) == t.kind \in {"left_parenthesis", "right_parenthesis"}

\* C2: for an input whose parentheses are balanced no "Mismatched parenthesis"
\* error is raised and no parenthesis token is placed in the output queue
C2_BalancedParentheses ==
    Balanced(view) =>
        /\ thrown # "Mismatched parenthesis"
        /\ \A i \in DOMAIN output_queue : ~IsParenthesis(output_queue[i])

\* C3: an input with an unmatched parenthesis never makes parse return a
\* functor: a call that returns was given balanced parentheses
C3_UnmatchedParenthesisRaises ==
    pc = "returned" => Balanced(view)

\* The same expression written as text and composed at compile time, for the
\* functors registered under one-character names
WellFormed(functors) ==
    LET names == { n \in DOMAIN functors : Len(n) = 1 }
        leaf(n) == functor_leaf(functors[n].acc)
    IN  { [ text |-> n, functor |-> leaf(n) ] : n \in names }
        \cup { [ text |-> << "(" >> \o n \o << ")" >>, functor |-> leaf(n) ] : n \in names }
        \cup { [ text |-> n \o << " " >>, functor |-> leaf(n) ] : n \in names }
        \cup { [ text |-> n \o << "+" >> \o m,
                 functor |-> make_composed_arfunctor("add", << leaf(n), leaf(m) >>) ] :
               n \in names, m \in names }

\* C4: the functor parse returns for the text of a well-formed expression
\* evaluates on every record to what the compile-time composition of the
\* same expression evaluates to
C4_ParseMatchesCompileTime ==
    pc = "returned" =>
        \A e \in WellFormed(functor_map) :
            e.text = view =>
                \A r \in Records : call_functor(result, r) = evaluate(e.functor, r)

\* The name the grammar reads at index it: the maximal run of letters, digits
\* and underscores
RECURSIVE IdentifierFrom(_, _)
IdentifierFrom(v, it) ==
    IF it > Len(v) \/ ~(isalnum(v[it]) \/ v[it] = "_") THEN << >>
    ELSE << v[it] >> \o IdentifierFrom(v, it + 1)

\* The running call is about to read an identifier
AtIdentifier ==
    /\ pc = "loop"
    /\ skip_blanks(view, m_it) <= Len(view)
    /\ isalpha(view[skip_blanks(view, m_it)]) \/ view[skip_blanks(view, m_it)] = "_"

\* C6: an identifier that is a key of neither map makes parse fail with the
\* not-found error and no token is produced for it; a name of the functor map
\* yields that functor as the token, and a name of the function map alone
\* yields that function
C6_IdentifierLookup ==
    /\ [](AtIdentifier =>
            LET it == skip_blanks(view, m_it)
                name == IdentifierFrom(view, it)
                r == parse_functor_or_function(view, it, functor_map, function_map)
            IN  /\ name \in DOMAIN functor_map =>
                      r.thrown = "" /\ r.tk = functor_token(functor_map[name])
                /\ (name \notin DOMAIN functor_map /\ name \in DOMAIN function_map) =>
                      r.thrown = "" /\ r.tk = function_token(function_map[name])
                /\ (name \notin DOMAIN functor_map /\ name \notin DOMAIN function_map) =>
                      r.thrown = "not found")
    /\ [][(AtIdentifier
            /\ IdentifierFrom(view, skip_blanks(view, m_it)) \notin DOMAIN functor_map
            /\ IdentifierFrom(view, skip_blanks(view, m_it)) \notin DOMAIN function_map)
          => (/\ pc' = "thrown"
              /\ thrown' = "not found"
              /\ tk' = tk
              /\ UNCHANGED << yard_vars, result, steps >>)]_vars

\* C6 witness: a call that delivered a functor for one name has failed with
\* the not-found error at a later name
C6_Witness ==
    /\ pc = "thrown"
    /\ thrown = "not found"
    /\ tk.kind = "functor"

\* Values the fold of a postfix queue leaves on its value stack, -1 if an
\* operator or function finds fewer operands than its arity or the queue holds
\* a token that is no operand, operator or function
RECURSIVE ResidualValues(_, _, _)
ResidualValues(q, i, n) ==
    IF n < 0 \/ i > Len(q) THEN n
    ELSE IF q[i].kind \in {"arithmetic", "functor"} THEN ResidualValues(q, i + 1, n + 1)
    ELSE IF q[i].kind = "operator"
    THEN ResidualValues(q, i + 1, IF n < 2 THEN -1 ELSE n - 1)
    ELSE IF q[i].kind = "function"
    THEN ResidualValues(q, i + 1, IF n < q[i].n THEN -1 ELSE n - q[i].n + 1)
    ELSE -1

\* C7: parse returns a functor only when the fold of the output queue leaves
\* exactly one value; otherwise it raises the malformed-expression error
C7_SingleResidualValue ==
    pc = "returned" => ResidualValues(output_queue, 1, 0) = 1

\* C8: the token the body of the token loop has just run on is never of the
\* null kind
C8_NoNullToken ==
    (pc = "loop" /\ steps > 0) => tk.kind # "null"

\* C10: a parse call ends with a functor or an error: while it runs, the call
\* can take a step that changes its state
C10_CallEnds ==
    pc \in {"loop", "drain"} => ENABLED << CallStep >>_call_state

(***************************************************************************)
(* SpecYard: the visitor of the token loop on sequences of tokens          *)
(***************************************************************************)
YardFunctor == Functor("x", "float")
YardFunction == Function("f", 2)

Operands == { functor_token(YardFunctor), arithmetic_token("1") }
BinaryOperators == { operator_token("+"), operator_token("*") }

YardTokens ==
    Operands \cup BinaryOperators
    \cup { function_token(YardFunction), comma_token, left_parenthesis_token,
           right_parenthesis_token, null_token }

InitYard ==
    /\ functor_map = (<< "x" >> :> YardFunctor)
    /\ function_map = (<< "f" >> :> YardFunction)
    /\ view = << >>
    /\ m_it = 1
    /\ eofbit = FALSE
    /\ tk = null_token
    /\ output_queue = << >>
    /\ operator_stack = << >>
    /\ pc = "loop"
    /\ result = NoResult
    /\ thrown = ""
    /\ steps = 0
    /\ fed = << >>
    /\ call = NoCall
    /\ nodes = << >>
    /\ heap = << >>
    /\ LibIdle

\* the body of the token loop runs on token t
Visit(t) ==
    /\ pc = "loop"
    /\ Len(fed) < MaxTokens
    /\ fed' = Append(fed, t)
    /\ tk' = t
    /\ steps' = Inc(steps)
    /\ LET y == visit(t, output_queue, operator_stack)
       IN  /\ output_queue' = y.output_queue
           /\ operator_stack' = y.operator_stack
           /\ thrown' = y.thrown
           /\ pc' = IF y.thrown # "" THEN "thrown" ELSE "loop"
    /\ UNCHANGED << lib_vars, parser_vars, view, m_it, eofbit, result, call, node_vars >>

\* the token loop ends: the operator stack is emptied and parse_impl returns
EndOfInput ==
    /\ pc = "loop"
    /\ LET d == drain(output_queue, operator_stack)
           r == parse_return(functor_map, d.output_queue)
       IN  /\ output_queue' = d.output_queue
           /\ operator_stack' = d.operator_stack
           /\ thrown' = IF d.thrown # "" THEN d.thrown ELSE r.thrown
           /\ result' = IF d.thrown # "" THEN NoResult ELSE r.value
           /\ pc' = IF d.thrown # "" \/ r.thrown # "" THEN "thrown" ELSE "returned"
    /\ UNCHANGED << lib_vars, parser_vars, reader_vars, steps, fed, call, node_vars >>

NextYard ==
    \/ \E t \in YardTokens : Visit(t)
    \/ EndOfInput

SpecYard == InitYard /\ [][NextYard]_vars

\* C1: with operators a and b between three operands, x a y b z is queued as
\* x y z b a when b has the higher precedence, and x a y a z as x y a z a
C1_PrecedenceAndAssociativity ==
    pc = "returned" =>
        \A x \in Operands, y \in Operands, z \in Operands :
            \A a \in BinaryOperators, b \in BinaryOperators :
                fed = << x, a, y, b, z >> =>
                    /\ precedence(b.name) > precedence(a.name) =>
                           output_queue = << x, y, z, b, a >>
                    /\ a = b => output_queue = << x, y, a, z, a >>

(***************************************************************************)
(* SpecCall: calls of registered functions through function_wrapper        *)
(***************************************************************************)
Values == {-2, 1, 2}

RECURSIVE SequencesOfLength(_, _)
SequencesOfLength(S, n) ==
    IF n = 0 THEN { << >> }
    ELSE { Append(q, e) : q \in SequencesOfLength(S, n - 1), e \in S }

Arguments == UNION { SequencesOfLength(Values, n) : n \in 0 .. MaxArity }

RECURSIVE Sum(_)
Sum(q) == IF q = << >> THEN 0 ELSE q[1] + Sum(Tail(q))

\* Callables given to function_proxy: in_range(lb, op, rb), and for every other
\* number of parameters a callable that adds its arguments
CallFunctions ==
    { Function(IF n = 3 THEN "in_range" ELSE "sum", n) : n \in 0 .. MaxArity }
    \cup { Function("sum", MaximumNumberOfArguments) }

\* m_function(args ...)
callable(f, args) ==
    IF f.fn = "in_range"
    THEN IF Len(args) >= 3 /\ args[2] > args[1] /\ args[2] < args[3] THEN 1 ELSE 0
    ELSE Sum(args)

\* specialized_function_wrapper::expected_number_of_arguments
expected_number_of_arguments(f) == f.number_of_arguments

\* specialized_function_wrapper::operator(): Args is the parameter pack of the
\* base class function_wrapper, MaximumNumberOfArguments values whatever the
\* call; args are the arguments the call is made for
function_wrapper_call(f, args) ==
    LET sizeof_Args == MaximumNumberOfArguments
    IN  IF f.number_of_arguments = sizeof_Args
        THEN [ value |-> callable(f, args), thrown |-> "" ]
        ELSE [ value |-> 0, thrown |-> "wrong number of arguments" ]

InitCall ==
    /\ functor_map = (<< "x" >> :> Functor("x", "float"))
    /\ function_map = << >>
    /\ InitCallState
    /\ fed = << >>
    /\ call = NoCall
    /\ nodes = << >>
    /\ heap = << >>
    /\ LibIdle

\* a registered function is called for the arguments args
CallFunction(f, args) ==
    /\ LET c == function_wrapper_call(f, args)
       IN  call' = [ fn |-> f.fn, number_of_arguments |-> expected_number_of_arguments(f),
                     args |-> args, value |-> c.value, thrown |-> c.thrown ]
    /\ UNCHANGED << lib_vars, parser_vars, reader_vars, yard_vars, pc, result, thrown, steps,
                    fed, node_vars >>

NextCall == \E f \in CallFunctions, args \in Arguments : CallFunction(f, args)

SpecCall == InitCall /\ [][NextCall]_vars

\* C5: a function whose callable declares n parameters returns the callable's
\* result when called with exactly n arguments and raises the arity error when
\* called with any other number of arguments
C5_FunctionArity ==
    call # NoCall =>
        IF Len(call.args) = call.number_of_arguments
        THEN /\ call.thrown = ""
             /\ call.value = callable(Function(call.fn, call.number_of_arguments), call.args)
        ELSE call.thrown # ""

(***************************************************************************)
(* SpecNode: the runtime_arfunctor objects of a program that uses a parser *)
(***************************************************************************)
\* The functor stored under "x" in the parser's map, and the program's own
\* objects: r1 and r2 receive what parse returns, t is built from a functor
MapNode == "map_x"
HostNodes == {"r1", "r2", "t"}
NodeNames == {MapNode} \cup HostNodes

PayloadIds == 1 .. MaxPayloads

\* An object that is not constructed, or was destroyed
NoNode == [ alive |-> FALSE, m_ptr |-> 0, parsed |-> FALSE, copied |-> "" ]
\* A constructed object: m_ptr is a payload id or 0 (nullptr); parsed says
\* that the object came out of parse and was not written since; copied names
\* the functor the object held when it was copy-constructed, or was the source
\* of a copy construction, if it was not written since
Node(ptr, parsed) == [ alive |-> TRUE, m_ptr |-> ptr, parsed |-> parsed, copied |-> "" ]

\* A payload: a specialized_runtime_arfunctor_wrapper made by new; frees
\* counts the deletes of it, stale says that it was read after a delete
NoPayload == [ allocated |-> FALSE, frees |-> 0, acc |-> "", stale |-> FALSE ]
Payload(acc) == [ allocated |-> TRUE, frees |-> 0, acc |-> acc, stale |-> FALSE ]

Live(h, p) == p \in PayloadIds /\ h[p].allocated /\ h[p].frees = 0

CanAllocate(h) == \E p \in PayloadIds : ~h[p].allocated
NewId(h) == CHOOSE p \in PayloadIds : ~h[p].allocated /\ \A q \in PayloadIds : q < p => h[q].allocated

\* new specialized_runtime_arfunctor_wrapper{functor}
new(h, acc) == [ h EXCEPT ![NewId(h)] = Payload(acc) ]

\* delete m_ptr
delete(h, p) == [ h EXCEPT ![p].frees = IF @ < 2 THEN @ + 1 ELSE 2 ]

\* p->clone() reads the payload p points to
read_payload(h, p) == IF Live(h, p) THEN h ELSE [ h EXCEPT ![p].stale = TRUE ]

InitNode ==
    /\ functor_map = (<< "x" >> :> Functor("x", "float"))
    /\ function_map = << >>
    /\ InitCallState
    /\ fed = << >>
    /\ call = NoCall
    /\ nodes = [ n \in NodeNames |-> IF n = MapNode THEN Node(1, FALSE) ELSE NoNode ]
    /\ heap = [ p \in PayloadIds |-> IF p = 1 THEN Payload("x") ELSE NoPayload ]
    /\ LibIdle

NodeUnchanged ==
    UNCHANGED << lib_vars, parser_vars, reader_vars, yard_vars, result, thrown, steps, fed, call >>

Running == pc = "idle"

\* runtime_arfunctor(Functor &&): t is built from a compile-time functor
Construct(n, acc) ==
    /\ Running
    /\ ~nodes[n].alive
    /\ CanAllocate(heap)
    /\ heap' = new(heap, acc)
    /\ nodes' = [ nodes EXCEPT ![n] = Node(NewId(heap), FALSE) ]
    /\ pc' = pc
    /\ NodeUnchanged

\* runtime_arfunctor(runtime_arfunctor const &): m_ptr{other.m_ptr->clone()}
copy_construct(n, src, parsed) ==
    IF nodes[src].m_ptr = 0
    THEN \* clone() called through a null pointer
         /\ pc' = "crashed"
         /\ UNCHANGED node_vars
    ELSE /\ CanAllocate(heap)
         /\ heap' = new(heap, heap[nodes[src].m_ptr].acc)
         /\ nodes' = [ nodes EXCEPT ![src].copied = heap[nodes[src].m_ptr].acc,
                                    ![n] = [ Node(NewId(heap), parsed)
                                             EXCEPT !.copied = heap[nodes[src].m_ptr].acc ] ]
         /\ pc' = pc

\* return static_cast<runtime_arfunctor<FunctorSignature>>(functors.at("x")):
\* a call of parse returns into object n
ParseReturn(n) ==
    /\ Running
    /\ n \in {"r1", "r2"}
    /\ ~nodes[n].alive
    /\ parse_return(functor_map, << >>).thrown = ""
    /\ copy_construct(n, MapNode, TRUE)
    /\ NodeUnchanged

CopyConstruct(n, src) ==
    /\ Running
    /\ ~nodes[n].alive
    /\ nodes[src].alive
    /\ copy_construct(n, src, FALSE)
    /\ NodeUnchanged

\* runtime_arfunctor(runtime_arfunctor &&)
MoveConstruct(n, src) ==
    /\ Running
    /\ ~nodes[n].alive
    /\ nodes[src].alive
    /\ nodes' = [ nodes EXCEPT ![n] = Node(nodes[src].m_ptr, FALSE),
                               ![src] = Node(0, FALSE) ]
    /\ pc' = pc
    /\ UNCHANGED heap
    /\ NodeUnchanged

\* How an operation whose behaviour is undefined can end: a function without
\* a return statement returns to its caller or traps at its end; a read of a
\* deleted payload gives what was stored there or faults
Undefined == {"returns", "traps"}

\* operator=(runtime_arfunctor const &): the old payload is deleted, then
\* other.m_ptr->clone() is read; the function ends without a return statement
CopyAssign(n, src, end) ==
    /\ Running
    /\ nodes[n].alive
    /\ nodes[src].alive
    /\ LET h1 == IF nodes[n].m_ptr # 0 THEN delete(heap, nodes[n].m_ptr) ELSE heap
           from == nodes[src].m_ptr
           written == [ nodes EXCEPT ![n].parsed = FALSE, ![n].copied = "" ]
       IN  IF from = 0
           THEN \* clone() called through a null pointer
                /\ heap' = h1
                /\ nodes' = written
                /\ pc' = "crashed"
           ELSE IF ~Live(h1, from) /\ end = "traps"
           THEN \* clone() called on the payload just deleted: the read faults
                /\ heap' = read_payload(h1, from)
                /\ nodes' = written
                /\ pc' = "crashed"
           ELSE /\ CanAllocate(h1)
                /\ heap' = new(read_payload(h1, from), h1[from].acc)
                /\ nodes' = [ nodes EXCEPT ![n] = Node(NewId(h1), FALSE) ]
                /\ pc' = IF end = "traps" THEN "crashed" ELSE pc
    /\ NodeUnchanged

\* operator=(runtime_arfunctor &&): m_ptr is overwritten, other.m_ptr is set
\* to nullptr; the function ends without a return statement
MoveAssign(n, src, end) ==
    /\ Running
    /\ nodes[n].alive
    /\ nodes[src].alive
    /\ nodes' = [ [ nodes EXCEPT ![n] = Node(nodes[src].m_ptr, FALSE) ]
                  EXCEPT ![src] = Node(0, FALSE) ]
    /\ pc' = IF end = "traps" THEN "crashed" ELSE pc
    /\ UNCHANGED heap
    /\ NodeUnchanged

\* ~runtime_arfunctor(): if (m_ptr) delete m_ptr
Destroy(n) ==
    /\ Running
    /\ nodes[n].alive
    /\ heap' = IF nodes[n].m_ptr # 0 THEN delete(heap, nodes[n].m_ptr) ELSE heap
    /\ nodes' = [ nodes EXCEPT ![n] = NoNode ]
    /\ pc' = pc
    /\ NodeUnchanged

\* operator()(args ...): m_ptr->operator()(args ...)
Evaluate(n) ==
    /\ Running
    /\ nodes[n].alive
    /\ pc' = IF nodes[n].m_ptr = 0 THEN "crashed" ELSE pc
    /\ UNCHANGED node_vars
    /\ NodeUnchanged

NextNode ==
    \/ \E n \in HostNodes : ParseReturn(n)
    \/ \E acc \in {"x", "y"} : Construct("t", acc)
    \/ \E n \in HostNodes, src \in NodeNames : CopyConstruct(n, src)
    \/ \E n \in HostNodes, src \in HostNodes : MoveConstruct(n, src)
    \/ \E n \in HostNodes, src \in NodeNames, end \in Undefined : CopyAssign(n, src, end)
    \/ \E n \in HostNodes, src \in HostNodes, end \in Undefined : MoveAssign(n, src, end)
    \/ \E n \in HostNodes : Destroy(n)
    \/ \E n \in NodeNames : Evaluate(n)

SpecNode == InitNode /\ [][NextNode]_vars

\* The object can be called and what it returns on record r
Evaluable(n) ==
    /\ pc # "crashed"
    /\ nodes[n].alive
    /\ Live(heap, nodes[n].m_ptr)

node_value(n, r) == r[heap[nodes[n].m_ptr].acc]

\* C9: two functors returned by parse own distinct payloads and give the same
\* output on every record, and each stays evaluable, with the outputs of the
\* registered functor, whatever is done to other objects: destroying, moving
\* from or reassigning one leaves the other as it was
C9_ParseResultsIndependent ==
    \A a \in HostNodes :
        nodes[a].parsed =>
            /\ Evaluable(a)
            /\ \A r \in Records : node_value(a, r) = call_functor(functor_map[<< "x" >>], r)
            /\ \A b \in HostNodes \ {a} :
                   nodes[b].parsed => nodes[a].m_ptr # nodes[b].m_ptr

(***************************************************************************)
(* SpecNum: calls of arithmetic_value_from_str                             *)
(***************************************************************************)
NumAlphabet == {"0", "4", ".", "e", "-", "u", "l", "f"}

RECURSIVE LiteralsOfLength(_)
LiteralsOfLength(n) ==
    IF n = 0 THEN { << >> }
    ELSE { Append(t, c) : t \in LiteralsOfLength(n - 1), c \in NumAlphabet }

\* the characters in memory from the start of the text to its terminator,
\* for texts of at most longest characters
Literals(longest) == UNION { LiteralsOfLength(n) : n \in 0 .. longest }

\* what a program can see of a conversion whose behaviour is not defined
Garbage == {0, 1}

InitNum == InitCall

\* arithmetic_value_from_str is called for the view of the first n characters
\* of s
ArithmeticValueFromStr(s, n, end, garbage) ==
    /\ number = NoNumber
    /\ str' = s
    /\ size' = n
    /\ LET v == arithmetic_value_from_str(s, n)
       IN  IF v.outcome = "undefined"
           THEN number' = IF end = "traps" THEN [ v EXCEPT !.outcome = "traps" ]
                          ELSE [ v EXCEPT !.outcome = "returns", !.value = garbage ]
           ELSE /\ end = "returns"
                /\ garbage = 0
                /\ number' = v
    /\ UNCHANGED << compose_vars, eval_vars, util_vars, parser_vars, reader_vars, yard_vars, pc, result,
                    thrown, steps, fed, call, node_vars >>

\* the caller drops what it was given
DropNumber ==
    /\ number # NoNumber
    /\ str' = << >>
    /\ size' = 0
    /\ number' = NoNumber
    /\ UNCHANGED << compose_vars, eval_vars, util_vars, parser_vars, reader_vars, yard_vars, pc, result,
                    thrown, steps, fed, call, node_vars >>

\* the views of the characters in memory: a std::string or a string literal is
\* viewed whole, a std::string_view may end before the terminator
Views(s) == { n \in 0 .. Len(s) : Len(s) - n <= MaxBeyond }

NextNum ==
    \/ /\ number = NoNumber
       /\ \E s \in Literals(MaxLiteral), end \in Undefined, garbage \in Garbage :
              \E n \in Views(s) : ArithmeticValueFromStr(s, n, end, garbage)
    \/ DropNumber

SpecNum == InitNum /\ [][NextNum]_vars

\* the text the call was given
Viewed == SubSeq(str, 1, size)

\* number of characters of t from position i on that are in S
RECURSIVE RunLength(_, _, _)
RunLength(t, i, S) == IF i <= Len(t) /\ t[i] \in S THEN 1 + RunLength(t, i + 1, S) ELSE 0

Count(t, S) == Cardinality({ i \in 1 .. Len(t) : t[i] \in S })

\* The form of a literal: its number part (digits and decimal points), its
\* exponent (a marker, a sign, digits) and what follows, the suffix
Form(t) ==
    LET m == RunLength(t, 1, Digits \cup {"."})
        marked == m < Len(t) /\ t[m + 1] \in {"e", "E"}
        signed == marked /\ m + 2 <= Len(t) /\ t[m + 2] \in {"-", "+"}
        first == IF signed THEN m + 3 ELSE m + 2
        d == IF marked THEN RunLength(t, first, Digits) ELSE 0
    IN  [ digits |-> Count(SubSeq(t, 1, m), Digits),
          points |-> Count(SubSeq(t, 1, m), {"."}),
          exponent |-> marked,
          exponent_digits |-> d,
          suffix |-> SubSeq(t, IF marked THEN first + d ELSE m + 1, Len(t)) ]

\* a number part with digits and at most one decimal point, and an exponent,
\* if any, with digits
Numeral(f) ==
    /\ f.digits > 0
    /\ f.points <= 1
    /\ f.exponent => f.exponent_digits > 0

Floating(f) == f.points > 0 \/ f.exponent

\* the type of a literal of form f, "" where none is stated
TypeOfForm(f) ==
    IF ~Numeral(f) THEN ""
    ELSE IF Floating(f)
         THEN CASE f.suffix = << >> -> "double"
                [] f.suffix = << "f" >> -> "float"
                [] f.suffix = << "l" >> -> "long double"
                [] OTHER -> ""
         ELSE CASE f.suffix = << >> -> "int"
                [] f.suffix = << "l" >> -> "long int"
                [] f.suffix = << "l", "l" >> -> "long long int"
                [] f.suffix = << "u" >> -> "unsigned int"
                [] f.suffix = << "u", "l" >> -> "unsigned long int"
                [] f.suffix = << "u", "l", "l" >> -> "unsigned long long int"
                [] f.suffix = << "f" >> -> "float"
                [] OTHER -> ""

\* C11: arithmetic_value_from_str gives a literal the type of its form: digits
\* only int, suffix l long int, ll long long int, u unsigned int, ul unsigned
\* long int, ull unsigned long long int; with a decimal point or an exponent
\* and no suffix double, with suffix l long double; with suffix f float
C11_TypeOfLiteral ==
    (number # NoNumber /\ TypeOfForm(Form(Viewed)) # "") =>
        /\ number.outcome = "returns"
        /\ number.type = TypeOfForm(Form(Viewed))

\* two decimal points, an exponent marker without digits, or a suffix of u, l
\* and f characters that repeats u, or joins u with f or with a floating
\* literal, or joins f with l
Malformed(f) ==
    /\ f.digits > 0
    /\ \/ f.points >= 2
       \/ f.exponent /\ f.exponent_digits = 0
       \/ /\ Numeral(f)
          /\ Count(f.suffix, {"u", "l", "f"}) = Len(f.suffix)
          /\ \/ Count(f.suffix, {"u"}) >= 2
             \/ Count(f.suffix, {"u"}) >= 1 /\ Count(f.suffix, {"f"}) >= 1
             \/ Count(f.suffix, {"u"}) >= 1 /\ Floating(f)
             \/ Count(f.suffix, {"f"}) >= 1 /\ Count(f.suffix, {"l"}) >= 1

\* C12: arithmetic_value_from_str throws, and returns nothing, for a literal
\* with two decimal points, with an exponent marker that no digit follows, or
\* with a repeated or conflicting suffix
C12_MalformedLiteralThrows ==
    (number # NoNumber /\ Malformed(Form(Viewed))) => number.outcome = "throws"

\* C13: a copy-constructed object and the object it was copied from own
\* distinct payloads that give the same output on every record; each stays
\* evaluable with those outputs when the other is destroyed, moved from or
\* reassigned; and no payload is deleted twice
C13_CopyOwnsItsPayload ==
    /\ \A a \in NodeNames :
           nodes[a].copied # "" =>
               /\ Evaluable(a)
               /\ \A r \in Records : node_value(a, r) = r[nodes[a].copied]
               /\ \A b \in NodeNames \ {a} :
                      nodes[b].copied # "" => nodes[a].m_ptr # nodes[b].m_ptr
    /\ \A p \in PayloadIds : heap[p].frees <= 1

(***************************************************************************)
(* SpecCompose: a program that makes run-time functors and combines them   *)
(* with the binary operators of core/operators.hpp                         *)
(***************************************************************************)
\* The records the functors are called on: the position of the tests and one
\* more
Positions == { [ x |-> 1, y |-> 2, z |-> 3 ], [ x |-> 0, y |-> 2, z |-> 1 ] }

\* fx and fy are made from the compile-time functors functor_x and functor_y;
\* a, b and c receive what an operator returns
ObjectNames == {"fx", "fy", "a", "b", "c"}
CellIds == 1 .. MaxCells

\* An object that was not constructed yet (used = FALSE) or was destroyed
NoObject == [ alive |-> FALSE, used |-> FALSE, m_ptr |-> 0, expected |-> << >>, from |-> {} ]
\* A constructed runtime_arfunctor: m_ptr is a cell id or 0 (nullptr); expected
\* is, for each record, the output of the expression the object was built
\* for, computed from its operands when it was built; from names the objects
\* that were copied into it
Object(ptr, expected, from) ==
    [ alive |-> TRUE, used |-> TRUE, m_ptr |-> ptr, expected |-> expected, from |-> from ]
Destroyed == [ NoObject EXCEPT !.used = TRUE ]

\* A specialized_runtime_arfunctor_wrapper made by new; the operands of a
\* composed functor it wraps are runtime_arfunctor members, held as their m_ptr
NoCell == [ allocated |-> FALSE, frees |-> 0, functor |-> functor_leaf("") ]
Cell(f) == [ allocated |-> TRUE, frees |-> 0, functor |-> f ]

Allocated(c) == { q \in CellIds : c[q].allocated }
FreeCells(c) == MaxCells - Cardinality(Allocated(c))
\* memory is not handed out twice in the model: a stale pointer stays stale
NewCell(c) == Cardinality(Allocated(c)) + 1
LiveCell(c, q) == q \in CellIds /\ c[q].allocated /\ c[q].frees = 0

\* new specialized_runtime_arfunctor_wrapper{functor}
allocate(c, f) == [ c EXCEPT ![NewCell(c)] = Cell(f) ]

\* the wrappers of the expression under wrapper q
RECURSIVE Reach(_, _)
Reach(c, q) ==
    IF q \notin CellIds THEN {}
    ELSE {q} \cup UNION { Reach(c, c[q].functor.operands[i]) :
                          i \in DOMAIN c[q].functor.operands }

\* every wrapper of the expression is allocated and not deleted
Sound(c, q) == q \in CellIds /\ \A w \in Reach(c, q) : LiveCell(c, w)

RECURSIVE clone_operands(_, _, _)
RECURSIVE clone(_, _)

\* a copy that takes the pointer of the wrapper instead of cloning it
alias(c, q) == [ cells |-> c, ptr |-> q, fault |-> FALSE ]

\* clone(): new specialized_runtime_arfunctor_wrapper{*this}; the copy of
\* m_functor copies its runtime_arfunctor operands, each with
\* m_ptr{other.m_ptr->clone()}
clone(c, q) ==
    IF ~LiveCell(c, q)
    THEN [ cells |-> c, ptr |-> 0, fault |-> TRUE ]
    ELSE LET w == NewCell(c)
             k == clone_operands(allocate(c, c[q].functor), c[q].functor.operands, << >>)
         IN  [ cells |-> [ k.cells EXCEPT ![w].functor.operands = k.ptrs ],
               ptr |-> w,
               fault |-> k.fault ]

clone_operands(c, ops, done) ==
    IF Len(done) = Len(ops)
    THEN [ cells |-> c, ptrs |-> done, fault |-> FALSE ]
    ELSE LET k == clone(c, ops[Len(done) + 1])
         IN  IF k.fault
             THEN [ cells |-> k.cells, ptrs |-> done, fault |-> TRUE ]
             ELSE clone_operands(k.cells, ops, Append(done, k.ptr))

\* ~runtime_arfunctor(): if (m_ptr) delete m_ptr; the wrapper's destructor
\* destroys m_functor and with it the operands
RECURSIVE destroy_operands(_, _, _)
RECURSIVE destroy(_, _)
destroy(c, q) ==
    IF q \notin CellIds
    THEN c
    ELSE destroy_operands([ c EXCEPT ![q].frees = IF @ < 2 THEN @ + 1 ELSE 2 ],
                          c[q].functor.operands, 1)

destroy_operands(c, ops, i) ==
    IF i > Len(ops) THEN c ELSE destroy_operands(destroy(c, ops[i]), ops, i + 1)

\* runtime_arfunctor::operator(): m_ptr->operator()(args ...), down to the
\* wrapped functors
RECURSIVE invoke(_, _, _)
invoke(c, q, r) ==
    LET f == c[q].functor
    IN  IF f.operator = "functor" THEN r[f.acc]
        ELSE IF f.operator = "arithmetic" THEN f.value
        ELSE apply_operator(f.operator,
                            [ i \in DOMAIN f.operands |-> invoke(c, f.operands[i], r) ])

\* The operands of an operator in the program's text: a named run-time
\* functor (lvalue), a run-time functor at the end of its life (a temporary,
\* rvalue), a compile-time functor, or an arithmetic value
Lvalue(n) == [ kind |-> "lvalue", name |-> n, acc |-> "", value |-> 0 ]
Rvalue(n) == [ kind |-> "rvalue", name |-> n, acc |-> "", value |-> 0 ]
CompileTime(acc) == [ kind |-> "functor", name |-> "", acc |-> acc, value |-> 0 ]
Arithmetic(v) == [ kind |-> "arithmetic", name |-> "", acc |-> "", value |-> v ]
OperandSet ==
    { Lvalue(n) : n \in ObjectNames } \cup { Rvalue(n) : n \in {"a", "b"} }
    \cup { CompileTime("z"), Arithmetic(4) }

is_runtime_arfunctor(o) == o.kind \in {"lvalue", "rvalue"}

\* as_arfunctor: a functor is taken as it is, an arithmetic value is wrapped
as_arfunctor(o) ==
    IF o.kind = "arithmetic" THEN arithmetic_leaf(o.value) ELSE functor_leaf(o.acc)

\* make_runtime_arfunctor<Signature>(functor): runtime_arfunctor(Functor &&)
make_runtime_arfunctor(c, f) == [ cells |-> allocate(c, f), ptr |-> NewCell(c) ]

\* make_runtime_composed_arfunctor: composed_arfunctor's constructor takes
\* its operands by Operand && when all are rvalues (they are moved: m_ptr is
\* taken) and by Operand const & otherwise (they are copied); the composed
\* functor is then moved into a new wrapper
make_runtime_composed_arfunctor(c, op, lop, rop) ==
    IF lop.rvalue /\ rop.rvalue
    THEN [ cells |-> allocate(c, make_composed_arfunctor(op, << lop.ptr, rop.ptr >>)),
           ptr |-> NewCell(c), moved |-> TRUE, fault |-> FALSE ]
    ELSE LET l == clone(c, lop.ptr)
             r == clone(l.cells, rop.ptr)
         IN  [ cells |-> allocate(r.cells, make_composed_arfunctor(op, << l.ptr, r.ptr >>)),
               ptr |-> NewCell(r.cells), moved |-> FALSE, fault |-> l.fault \/ r.fault ]

\* binary_operator_switcher::operator() for operands of which one at least is
\* a run-time functor of objects obj, and the end of the full expression,
\* where the temporaries are destroyed
binary_operator_switcher(c, obj, op, l, r) ==
    LET pl == IF is_runtime_arfunctor(l)
              THEN [ cells |-> c, ptr |-> obj[l.name].m_ptr ]
              ELSE make_runtime_arfunctor(c, as_arfunctor(l))
        pr == IF is_runtime_arfunctor(r)
              THEN [ cells |-> pl.cells, ptr |-> obj[r.name].m_ptr ]
              ELSE make_runtime_arfunctor(pl.cells, as_arfunctor(r))
        lop == [ ptr |-> pl.ptr, rvalue |-> l.kind # "lvalue" ]
        rop == [ ptr |-> pr.ptr, rvalue |-> r.kind # "lvalue" ]
        k == make_runtime_composed_arfunctor(pr.cells, op, lop, rop)
        l_gone == IF lop.rvalue /\ ~k.moved THEN destroy(k.cells, lop.ptr) ELSE k.cells
        r_gone == IF rop.rvalue /\ ~k.moved THEN destroy(l_gone, rop.ptr) ELSE l_gone
    IN  [ cells |-> r_gone, ptr |-> k.ptr, fault |-> k.fault ]

\* what an operand gives on record r
operand_value(c, obj, o, r) ==
    IF is_runtime_arfunctor(o) THEN invoke(c, obj[o.name].m_ptr, r)
    ELSE evaluate(as_arfunctor(o), r)

\* the named objects copied into an operand
operand_from(obj, o) ==
    IF o.kind = "lvalue" THEN {o.name} \cup obj[o.name].from
    ELSE IF o.kind = "rvalue" THEN obj[o.name].from
    ELSE {}

Wrappers(c, q) == Cardinality(Reach(c, q))

InitCompose ==
    /\ functor_map = (<< "x" >> :> Functor("x", "float"))
    /\ function_map = << >>
    /\ InitCallState
    /\ fed = << >>
    /\ call = NoCall
    /\ nodes = << >>
    /\ heap = << >>
    /\ NumstrIdle
    /\ EvalIdle
    /\ UtilIdle
    /\ objects = [ n \in ObjectNames |-> NoObject ]
    /\ cells = [ q \in CellIds |-> NoCell ]

ComposeUnchanged ==
    UNCHANGED << numstr_vars, eval_vars, util_vars, parser_vars, reader_vars, yard_vars, result, thrown, steps,
                 fed, call, node_vars >>

\* auto fx = make_runtime_arfunctor<float(position const &)>(functor_x)
MakeRuntimeArfunctor(n, acc) ==
    /\ Running
    /\ ~objects[n].used
    /\ FreeCells(cells) >= 1
    /\ LET k == make_runtime_arfunctor(cells, functor_leaf(acc))
       IN  /\ cells' = k.cells
           /\ objects' = [ objects EXCEPT
                           ![n] = Object(k.ptr, [ r \in Positions |-> r[acc] ], {}) ]
    /\ pc' = pc
    /\ ComposeUnchanged

\* auto n = l op r
BinaryOperator(n, op, l, r) ==
    /\ Running
    /\ ~objects[n].used
    /\ is_runtime_arfunctor(l) \/ is_runtime_arfunctor(r)
    /\ \A o \in {l, r} : is_runtime_arfunctor(o) => objects[o.name].alive
    /\ (l.kind = "rvalue" \/ r.kind = "rvalue") => l.name # r.name
    /\ LET promoted(o) == IF is_runtime_arfunctor(o) THEN 0 ELSE 1
           copied(o) == IF l.kind # "lvalue" /\ r.kind # "lvalue" THEN 0
                        ELSE IF is_runtime_arfunctor(o)
                             THEN Wrappers(cells, objects[o.name].m_ptr)
                             ELSE 1
       IN  FreeCells(cells) >= promoted(l) + promoted(r) + copied(l) + copied(r) + 1
    /\ LET k == binary_operator_switcher(cells, objects, op, l, r)
           expected == [ rec \in Positions |->
                         apply_operator(op, << operand_value(cells, objects, l, rec),
                                               operand_value(cells, objects, r, rec) >>) ]
           from == operand_from(objects, l) \cup operand_from(objects, r)
           ended == { o.name : o \in { t \in {l, r} : t.kind = "rvalue" } }
       IN  /\ cells' = k.cells
           /\ objects' = [ m \in ObjectNames |->
                           IF m = n THEN Object(k.ptr, expected, from)
                           ELSE IF m \in ended THEN Destroyed
                           ELSE objects[m] ]
           /\ pc' = IF k.fault THEN "crashed" ELSE pc
    /\ ComposeUnchanged

\* the object goes out of scope
DestroyObject(n) ==
    /\ Running
    /\ objects[n].alive
    /\ cells' = destroy(cells, objects[n].m_ptr)
    /\ objects' = [ objects EXCEPT ![n] = Destroyed ]
    /\ pc' = pc
    /\ ComposeUnchanged

\* the results of the operators are declared in the order a, b, c
Declared(n) ==
    /\ n \in {"a", "b", "c"}
    /\ n = "b" => objects["a"].used
    /\ n = "c" => objects["b"].used

NextCompose ==
    \/ MakeRuntimeArfunctor("fx", "x")
    \/ MakeRuntimeArfunctor("fy", "y")
    \/ \E n \in { m \in ObjectNames : Declared(m) }, op \in {"add", "sub"}, l \in OperandSet, r \in OperandSet :
           BinaryOperator(n, op, l, r)
    \/ \E n \in ObjectNames : DestroyObject(n)

SpecCompose == InitCompose /\ [][NextCompose]_vars

MaxTerms == 3      \* most terms of a sum built with the binary operators

\* an arithmetic value held in m_operands as it is
literal_leaf(n) == [ operator |-> "literal", acc |-> "", value |-> n, operands |-> << >> ]

FunctorLeaves == { functor_leaf(acc) : acc \in {"x", "y", "z"} }
LiteralLeaves == { literal_leaf(-2), literal_leaf(2) }

\* as_arfunctor on an operand of an operator
as_arfunctor_operand(e) ==
    IF e.operator = "literal" THEN as_arfunctor(Arithmetic(e.value)) ELSE e

\* switch_binary_operator for operands of which none is a run-time functor
switch_binary_operator(op, l, r) ==
    make_composed_arfunctor(op, << as_arfunctor_operand(l), as_arfunctor_operand(r) >>)

\* functor_x * functor_y, ...
Products == { switch_binary_operator("mul", l, r) : l \in FunctorLeaves, r \in FunctorLeaves }
Terms == FunctorLeaves \cup Products

\* sums and differences of n terms: t1 + t2 - t3 ...
RECURSIVE Sums(_)
Sums(n) ==
    IF n = 1 THEN Terms
    ELSE { switch_binary_operator(op, l, r) :
           op \in {"add", "sub"}, l \in Sums(n - 1), r \in Terms \cup LiteralLeaves }

\* the helpers of the tests call make_composed_arfunctor on their arguments
abs(op) == make_composed_arfunctor("abs", << op >>)
in_range(lb, op, rb) == make_composed_arfunctor("in_range", << lb, op, rb >>)

UserNodes(terms) ==
    { abs(op) : op \in Sums(terms - 1) }
    \cup { in_range(lb, op, rb) : lb \in FunctorLeaves \cup LiteralLeaves,
                                  op \in Terms \cup LiteralLeaves,
                                  rb \in FunctorLeaves \cup LiteralLeaves }

Expressions(terms) == UNION { Sums(n) : n \in 1 .. terms } \cup UserNodes(terms)

\* whether std::get<I>(m_operands).operator()(args...) names a member of
\* every operand: an arithmetic value has none
RECURSIVE has_call_operator(_)
has_call_operator(f) ==
    /\ f.operator # "literal"
    /\ \A i \in DOMAIN f.operands : has_call_operator(f.operands[i])

\* composed_arfunctor::operator(): call_impl calls every operand with the
\* arguments and applies the operator to what they give
call_impl(f, r) ==
    IF has_call_operator(f)
    THEN [ ok |-> TRUE, called |-> TRUE, value |-> evaluate(f, r) ]
    ELSE [ ok |-> FALSE, called |-> TRUE, value |-> 0 ]

EvalUnchanged ==
    UNCHANGED << numstr_vars, compose_vars, util_vars, parser_vars, reader_vars, yard_vars, pc,
                 result, thrown, steps, fed, call, node_vars >>

InitEval == InitCall

\* auto f = ...; position pos = ...
MakeExpression(e, r) ==
    /\ expression = NoExpression
    /\ expression' = e
    /\ arguments' = r
    /\ UNCHANGED << returned, threads >>
    /\ EvalUnchanged

\* f(pos)
CallExpression ==
    /\ expression # NoExpression
    /\ returned = NotCalled
    /\ returned' = call_impl(expression, arguments)
    /\ UNCHANGED << expression, arguments, threads >>
    /\ EvalUnchanged

\* the end of the scope of f
DropExpression ==
    /\ returned # NotCalled
    /\ expression' = NoExpression
    /\ arguments' = << >>
    /\ returned' = NotCalled
    /\ UNCHANGED threads
    /\ EvalUnchanged

NextEval ==
    \/ /\ expression = NoExpression
       /\ \E e \in Expressions(MaxTerms), r \in Positions : MakeExpression(e, r)
    \/ CallExpression
    \/ DropExpression

SpecEval == InitEval /\ [][NextEval]_vars

\* what the operands and the node are to give: a functor or a node is invoked
\* with the record, an arithmetic value gives itself, and the operator is
\* applied to the values in the order of the operands
RECURSIVE ValueOn(_, _)
ValueOn(f, r) ==
    IF f.operator = "functor" THEN r[f.acc]
    ELSE IF f.operator \in {"literal", "arithmetic"} THEN f.value
    ELSE apply_operator(f.operator,
                        [ i \in DOMAIN f.operands |-> ValueOn(f.operands[i], r) ])

\* C15: the call of a compile-time composed functor on a record gives the
\* operator applied, in operand order, to what every operand gives on the
\* record, an arithmetic operand giving itself, for nested nodes and for user
\* operators of any number of operands
C15_ComposedEvaluation ==
    returned.called =>
        /\ returned.ok
        /\ returned.value = ValueOn(expression, arguments)

(***************************************************************************)
(* SpecThreads: threads that call the same functor, each on its own record *)
(***************************************************************************)
MaxThreads == 2    \* threads calling the functor

ThreadIds == 1 .. MaxThreads

\* a call in progress: the record it was given, the functor as it was when
\* the call began, the frames of call_impl (innermost last), what it returned
NoThread ==
    [ state |-> "idle", record |-> << >>, tree |-> NoExpression, stack |-> << >>,
      value |-> 0, overlapped |-> FALSE ]

\* the functors the threads share
SharedTrees ==
    { switch_binary_operator("sub",
          switch_binary_operator("mul", functor_leaf("x"), functor_leaf("y")), r) :
      r \in {functor_leaf("z"), literal_leaf(2)} }
    \cup { in_range(functor_leaf("x"), functor_leaf("y"), functor_leaf("z")),
           abs(switch_binary_operator("sub", functor_leaf("x"), functor_leaf("z"))) }

\* the operand of f reached through the operand indices of path
RECURSIVE subtree(_, _)
subtree(f, path) ==
    IF path = << >> THEN f ELSE subtree(f.operands[Head(path)], Tail(path))

NotDone == [ done |-> FALSE, value |-> 0 ]
Done(v) == [ done |-> TRUE, value |-> v ]

\* a frame of call_impl for the node at path: what its operands gave so far
Frame(f, path) ==
    [ path |-> path, values |-> [ i \in DOMAIN subtree(f, path).operands |-> NotDone ] ]

\* the call operator of an operand that is not composed
leaf_value(f, r) == IF f.operator = "functor" THEN r[f.acc] ELSE f.value

\* a functor that keeps what a call gave in the node
memoised(f, v) == [ f EXCEPT !.value = v ]

\* the call operators are const members: the functor after a call that gave v
after_call(f, v) == f

Concurrent(t) == \E u \in ThreadIds \ {t} : threads[u].state = "running"

ThreadsUnchanged ==
    UNCHANGED << numstr_vars, compose_vars, util_vars, parser_vars, reader_vars, yard_vars, pc,
                 result, thrown, steps, fed, call, node_vars, arguments, returned >>

InitThreads ==
    /\ functor_map = (<< "x" >> :> Functor("x", "float"))
    /\ function_map = << >>
    /\ InitCallState
    /\ fed = << >>
    /\ call = NoCall
    /\ nodes = << >>
    /\ heap = << >>
    /\ NumstrIdle
    /\ ComposeIdle
    /\ UtilIdle
    /\ expression = NoExpression
    /\ arguments = << >>
    /\ returned = NotCalled
    /\ threads = [ t \in ThreadIds |-> NoThread ]

\* the functor is built before the threads start
ShareExpression(e) ==
    /\ expression = NoExpression
    /\ expression' = e
    /\ UNCHANGED threads
    /\ ThreadsUnchanged

\* runtime_arfunctor::operator() and composed_arfunctor::operator(): thread t
\* calls the functor on r
StartCall(t, r) ==
    /\ expression # NoExpression
    /\ threads[t].state = "idle"
    /\ threads' = [ threads EXCEPT ![t] =
                    [ state |-> "running", record |-> r, tree |-> expression,
                      stack |-> << Frame(expression, << >>) >>, value |-> 0,
                      overlapped |-> FALSE ] ]
    /\ UNCHANGED expression
    /\ ThreadsUnchanged

\* call_impl calls operand i of the node of the innermost frame; the order of
\* the calls is not specified
CallOperand(t, i) ==
    /\ threads[t].state = "running"
    /\ LET th == threads[t]
           top == Len(th.stack)
           fr == th.stack[top]
           n == subtree(expression, fr.path)
       IN  /\ i \in DOMAIN n.operands
           /\ ~fr.values[i].done
           /\ threads' = [ threads EXCEPT ![t] =
                  [ th EXCEPT
                    !.overlapped = @ \/ Concurrent(t),
                    !.stack = IF n.operands[i].operands = << >>
                              THEN [ @ EXCEPT ![top].values[i] =
                                     Done(leaf_value(n.operands[i], th.record)) ]
                              ELSE Append(@, Frame(expression, Append(fr.path, i))) ] ]
    /\ UNCHANGED expression
    /\ ThreadsUnchanged

\* every operand of the innermost frame has given its value: the operator is
\* applied and the value goes to the caller
Return(t) ==
    /\ threads[t].state = "running"
    /\ LET th == threads[t]
           top == Len(th.stack)
           fr == th.stack[top]
           n == subtree(expression, fr.path)
           v == apply_operator(n.operator, [ i \in DOMAIN fr.values |-> fr.values[i].value ])
       IN  /\ \A i \in DOMAIN fr.values : fr.values[i].done
           /\ expression' = after_call(expression, v)
           /\ threads' = [ threads EXCEPT ![t] =
                  IF top = 1
                  THEN [ th EXCEPT !.state = "done", !.stack = << >>, !.value = v,
                                   !.overlapped = @ \/ Concurrent(t) ]
                  ELSE [ th EXCEPT
                         !.overlapped = @ \/ Concurrent(t),
                         !.stack = [ SubSeq(@, 1, top - 1) EXCEPT
                                     ![top - 1].values[fr.path[Len(fr.path)]] = Done(v) ] ] ]
    /\ ThreadsUnchanged

\* the thread drops what the call gave
ForgetCall(t) ==
    /\ threads[t].state = "done"
    /\ threads' = [ threads EXCEPT ![t] = NoThread ]
    /\ UNCHANGED expression
    /\ ThreadsUnchanged

\* the functor goes out of scope once no thread uses it
DropShared ==
    /\ expression # NoExpression
    /\ \A t \in ThreadIds : threads[t].state = "idle"
    /\ expression' = NoExpression
    /\ UNCHANGED threads
    /\ ThreadsUnchanged

NextThreads ==
    \/ \E e \in SharedTrees : ShareExpression(e)
    \/ \E t \in ThreadIds, r \in Positions : StartCall(t, r)
    \/ \E t \in ThreadIds, i \in 1 .. MaxArity : CallOperand(t, i)
    \/ \E t \in ThreadIds : Return(t)
    \/ \E t \in ThreadIds : ForgetCall(t)
    \/ DropShared

SpecThreads == InitThreads /\ [][NextThreads]_vars

\* C16: however the calls of several threads on the same functor interleave,
\* each call returns what a call alone on its record returns, and the functor
\* with all its operands is the same during and after the calls as before
C16_CallsLeaveTreeUnchanged ==
    \A t \in ThreadIds :
        /\ threads[t].state # "idle" => expression = threads[t].tree
        /\ threads[t].state = "done" =>
               threads[t].value = evaluate(threads[t].tree, threads[t].record)

\* two calls on different records ran at the same time and gave different
\* values
C16_Witness ==
    \E t \in ThreadIds, u \in ThreadIds :
        /\ threads[t].state = "done" /\ threads[t].overlapped
        /\ threads[u].state = "done" /\ threads[u].overlapped
        /\ threads[t].record # threads[u].record
        /\ threads[t].value # threads[u].value

(***************************************************************************)
(* SpecIndex: a multi_index is built and asked for indices                 *)
(***************************************************************************)
MaxDim == 3        \* most dimensions of a multi_index
MaxExtent == 3     \* largest size of a dimension

\* std::copy(std::next(prod.cbegin()), prod.cend(), prod.begin()) and
\* prod.back() = 1
shifted(prod) ==
    [ i \in DOMAIN prod |-> IF i < Len(prod) THEN prod[i + 1] ELSE 1 ]

\* std::transform from the last but one element to the first: each element
\* is multiplied by the one after it, already multiplied
RECURSIVE transform(_, _)
transform(prod, i) ==
    IF i < 1 THEN prod
    ELSE transform([ prod EXCEPT ![i] = prod[i] * prod[i + 1] ], i - 1)

product_of_sizes(prod) ==
    LET first_size == prod[1]
        products == transform(shifted(prod), Len(prod) - 1)
    IN  [ first |-> products, second |-> products[1] * first_size ]

\* multi_index::at, from dimension i on, of what is left of the index
RECURSIVE at_loop(_, _, _, _)
at_loop(products, indices, i, index) ==
    IF i > Len(products) THEN indices
    ELSE at_loop(products, [ indices EXCEPT ![i] = index \div products[i] ], i + 1,
                 index % products[i])

at(products, index) == at_loop(products, products, 1, index)

RECURSIVE unravel_loop(_, _, _, _)
unravel_loop(products, dim, i, index) ==
    IF i >= dim THEN index
    ELSE unravel_loop(products, dim, i + 1, index % products[i + 1])

\* an unravel that divides the whole index
unravel_whole(products, dim, index) == index \div products[dim + 1]

\* multi_index::unravel; dimensions count from 0
unravel(products, dim, index) ==
    unravel_loop(products, dim, 0, index) \div products[dim + 1]

SizesOfDim(n) == [ 1 .. n -> 0 .. MaxExtent ]

IndexUnchanged ==
    UNCHANGED << numstr_vars, compose_vars, eval_vars, iter_vars, enum_vars, parser_vars,
                 reader_vars, yard_vars, pc, result, thrown, steps, fed, call, node_vars >>

InitIndex == InitCall

\* multi_index(s ...)
MakeMultiIndex(s) ==
    /\ sizes = << >>
    /\ LET data == product_of_sizes(s)
       IN  /\ m_products' = data.first
           /\ m_size' = data.second
    /\ sizes' = s
    /\ indexed' = NotIndexed
    /\ IndexUnchanged

\* mi.at(index), mi[index]
At(index) ==
    /\ sizes # << >>
    /\ index < m_size
    /\ indexed' = [ call |-> "at", dim |-> 0, index |-> index,
                    value |-> at(m_products, index) ]
    /\ UNCHANGED << sizes, m_products, m_size >>
    /\ IndexUnchanged

\* mi.unravel(dim, index)
Unravel(dim, index) ==
    /\ sizes # << >>
    /\ index < m_size
    /\ dim < Len(m_products)
    /\ indexed' = [ call |-> "unravel", dim |-> dim, index |-> index,
                    value |-> << unravel(m_products, dim, index) >> ]
    /\ UNCHANGED << sizes, m_products, m_size >>
    /\ IndexUnchanged

\* the multi_index goes out of scope
DropMultiIndex ==
    /\ sizes # << >>
    /\ sizes' = << >>
    /\ m_products' = << >>
    /\ m_size' = 0
    /\ indexed' = NotIndexed
    /\ IndexUnchanged

NextIndex ==
    \/ /\ sizes = << >>
       /\ \E n \in 1 .. MaxDim : \E s \in SizesOfDim(n) : MakeMultiIndex(s)
    \/ /\ sizes # << >>
       /\ \E index \in 0 .. m_size - 1 : At(index)
    \/ /\ sizes # << >>
       /\ \E dim \in 0 .. Len(sizes) - 1, index \in 0 .. m_size - 1 : Unravel(dim, index)
    \/ DropMultiIndex

SpecIndex == InitIndex /\ [][NextIndex]_vars

\* the index tuples of the sizes s, and their row-major order: the tuple with
\* the smaller index at the first dimension where they differ comes first
IndexTuples(s) == { t \in [ DOMAIN s -> 0 .. MaxExtent ] : \A j \in DOMAIN s : t[j] < s[j] }

RowMajorBefore(u, t) ==
    \E j \in DOMAIN t : u[j] < t[j] /\ \A k \in 1 .. j - 1 : u[k] = t[k]

RowMajorRank(s, t) == Cardinality({ u \in IndexTuples(s) : RowMajorBefore(u, t) })

\* C17: size() is the number of index tuples of the sizes (their product),
\* at(i) for i < size() is the i-th index tuple in row-major order, with
\* every index below the size of its dimension, and unravel(j, i) is at(i)[j]
C17_RowMajorIndices ==
    sizes # << >> =>
        /\ m_size = Cardinality(IndexTuples(sizes))
        /\ indexed.call = "at" =>
               /\ indexed.value \in IndexTuples(sizes)
               /\ RowMajorRank(sizes, indexed.value) = indexed.index
        /\ indexed.call = "unravel" =>
               \E t \in IndexTuples(sizes) :
                   /\ RowMajorRank(sizes, t) = indexed.index
                   /\ indexed.value = << t[indexed.dim + 1] >>
                   /\ t = at(m_products, indexed.index)

\* the multi_index of the test, of sizes (2, 3, 2), gave (1, 2, 1) for its
\* last index and 2 for the dimension 1 of the index 5
C17_Witness ==
    /\ sizes = << 2, 3, 2 >>
    /\ m_size = 12
    /\ \/ indexed = [ call |-> "at", dim |-> 0, index |-> 11, value |-> << 1, 2, 1 >> ]
       \/ indexed = [ call |-> "unravel", dim |-> 1, index |-> 5, value |-> << 2 >> ]

(***************************************************************************)
(* SpecIter: loops over the proxy of an indexed container                  *)
(***************************************************************************)
SizeTypeBits == 4  \* width of the container's size_type
MaxElements == 12  \* most elements of the container

\* std::numeric_limits<size_type>::max(), size_type(-1)
SizeTypeMax == 2 ^ SizeTypeBits - 1

\* ++index on the unsigned size_type
increase(index) == (index + 1) % (SizeTypeMax + 1)

\* a --index that stops at zero
decrease_to_zero(index) == IF index = 0 THEN 0 ELSE index - 1

\* --index on the unsigned size_type
decrease(index) == (index + SizeTypeMax) % (SizeTypeMax + 1)

\* indexed_iterator_traits<IteratorDirection>::next
next(direction, index) ==
    IF direction = "backward" THEN decrease(index) ELSE increase(index)

\* indexed_container_proxy::begin, end, rbegin, rend: m_pos of the iterator
\* for a container of n elements
proxy_begin(n) == 0
proxy_end(n) == n
proxy_rbegin(n) == (n + SizeTypeMax) % (SizeTypeMax + 1)
proxy_rend(n) == SizeTypeMax

ShiftUnchanged ==
    UNCHANGED << numstr_vars, compose_vars, eval_vars, index_vars, enum_vars, parser_vars,
                 reader_vars, yard_vars, pc, result, thrown, steps, fed, call, node_vars >>

IterUnchanged == ShiftUnchanged /\ UNCHANGED shift

InitIter == InitCall

\* for (auto it = proxy.begin(); it != proxy.end(); ++it)
StartForward(n) ==
    /\ container = NoContainer
    /\ container' = [ size |-> n, direction |-> "forward" ]
    /\ m_pos' = proxy_begin(n)
    /\ last' = proxy_end(n)
    /\ visited' = << >>
    /\ IterUnchanged

\* for (auto it = proxy.rbegin(); it != proxy.rend(); ++it)
StartBackward(n) ==
    /\ container = NoContainer
    /\ container' = [ size |-> n, direction |-> "backward" ]
    /\ m_pos' = proxy_rbegin(n)
    /\ last' = proxy_rend(n)
    /\ visited' = << >>
    /\ IterUnchanged

\* it != end holds: the body reads *it, then ++it; a loop that has read more
\* than the container holds is not followed further
LoopStep ==
    /\ container # NoContainer
    /\ m_pos # last
    /\ Len(visited) <= container.size
    /\ visited' = Append(visited, m_pos)
    /\ m_pos' = next(container.direction, m_pos)
    /\ UNCHANGED << container, last >>
    /\ IterUnchanged

\* it != end fails: the loop is left
LoopExit ==
    /\ container # NoContainer
    /\ m_pos = last
    /\ container' = NoContainer
    /\ m_pos' = 0
    /\ last' = 0
    /\ visited' = << >>
    /\ IterUnchanged

NextIter ==
    \/ \E n \in 0 .. MaxElements : StartForward(n)
    \/ \E n \in 0 .. MaxElements : StartBackward(n)
    \/ LoopStep
    \/ LoopExit

SpecIter == InitIter /\ [][NextIter]_vars

\* the indices a loop over n elements is to read, in order
Ascending(n) == [ i \in 1 .. n |-> i - 1 ]
Descending(n) == [ i \in 1 .. n |-> n - i ]
InOrder(c) == IF c.direction = "forward" THEN Ascending(c.size) ELSE Descending(c.size)

\* C18: a loop from begin() to end() reads the indices 0 .. n - 1 in this
\* order and is left after n steps, a loop from rbegin() to rend() reads
\* n - 1 .. 0 and is left after n steps, rend() being size_type(-1); for
\* n = 0 neither reads anything
C18_ProxyIteration ==
    container # NoContainer =>
        /\ Len(visited) <= container.size
        /\ visited = SubSeq(InOrder(container), 1, Len(visited))
        /\ (m_pos = last) <=> (Len(visited) = container.size)
        /\ container.direction = "backward" => last = SizeTypeMax

\* a backward loop over the largest container has read every index and
\* stands at rend()
C18_Witness ==
    /\ container = [ size |-> MaxElements, direction |-> "backward" ]
    /\ visited = Descending(MaxElements)
    /\ m_pos = SizeTypeMax
    /\ m_pos = last

(***************************************************************************)
(* SpecEnum: a smart enumeration is declared and converted from and to     *)
(* strings                                                                 *)
(***************************************************************************)
MaxNames == 2      \* most names of an enumeration besides the unknown
MaxNameLen == 2    \* longest name of an enumeration

EnumLetters == {"a", "b"}

RECURSIVE StringsOfLength(_, _)
StringsOfLength(alphabet, n) ==
    IF n = 0 THEN { << >> }
    ELSE { Append(t, c) : t \in StringsOfLength(alphabet, n - 1), c \in alphabet }

\* the identifiers an enumeration may declare
Identifiers(longest) == UNION { StringsOfLength(EnumLetters, n) : n \in 1 .. longest }

\* the std::string values given to the conversions: any characters, the
\* null character among them
StdStrings(longest) ==
    UNION { StringsOfLength(EnumLetters \cup {"u", NUL}, n) : n \in 0 .. longest }

\* #__VA_ARGS__: the names with a comma between them, followed by a space
\* where the declaration had white space
RECURSIVE stringified(_, _)
stringified(names, separator) ==
    IF Len(names) = 1 THEN names[1]
    ELSE names[1] \o separator \o stringified(Tail(names), separator)

\* va_args_with_unknown::value: #unknown "," #__VA_ARGS__
va_args_with_unknown(d) == d.unknown \o << "," >> \o stringified(d.names, d.separator)

\* va_args::value
va_args(d) == stringified(d.names, d.separator)

\* size: the commas of va_args plus one
enum_size(d) == Cardinality({ i \in DOMAIN va_args(d) : va_args(d)[i] = "," }) + 1

size_with_unknown(d) == enum_size(d) + 1

\* std::string_view(&buffer[fc], n), fc counting from 0
string_view(buffer, fc, n) == SubSeq(buffer, fc + 1, fc + n)

\* result[counter++] = v, in an array of N views
assign_name(names, counter, v) ==
    IF counter < Len(names) THEN [ names EXCEPT ![counter + 1] = v ] ELSE names

\* detail::make_names: the loop over the buffer
RECURSIVE make_names_loop(_, _, _, _, _, _)
make_names_loop(buffer, names, status, counter, fc, sc) ==
    IF sc >= Len(buffer) THEN names
    ELSE LET c == buffer[sc + 1]
         IN  IF c \in {" ", "\t", "\n", "\r", "="}
             THEN IF status
                  THEN IF fc # sc
                       THEN make_names_loop(buffer,
                                assign_name(names, counter, string_view(buffer, fc, sc - fc)),
                                FALSE, counter + 1, sc + 1, sc + 1)
                       ELSE make_names_loop(buffer, names, status, counter, sc + 1, sc + 1)
                  ELSE make_names_loop(buffer, names, status, counter, fc, sc + 1)
             ELSE IF c = ","
             THEN IF status
                  THEN make_names_loop(buffer,
                           assign_name(names, counter, string_view(buffer, fc, sc - fc)),
                           status, counter + 1, sc + 1, sc + 1)
                  ELSE make_names_loop(buffer, names, TRUE, counter, sc + 1, sc + 1)
             ELSE IF sc + 1 = Len(buffer) /\ status
             THEN make_names_loop(buffer,
                      assign_name(names, counter, string_view(buffer, fc, sc + 1 - fc)),
                      status, counter + 1, fc, sc + 1)
             ELSE make_names_loop(buffer, names, status, counter, fc, sc + 1)

make_names(N, buffer) == make_names_loop(buffer, [ i \in 1 .. N |-> << >> ], TRUE, 0, 0, 0)

\* values_with_unknown[i], i counting from 0: unknown = 0, then the names
values_with_unknown(i) == i
unknown_value == 0

is_unknown(e) == e = unknown_value

\* from_string_view: the value of the first name equal to the view
RECURSIVE from_string_view_loop(_, _, _)
from_string_view_loop(names, v, i) ==
    IF i >= Len(names) THEN unknown_value
    ELSE IF v = names[i + 1] THEN values_with_unknown(i)
    ELSE from_string_view_loop(names, v, i + 1)

from_string_view(names, v) == from_string_view_loop(names, v, 0)

\* std::string_view(str.c_str()): the characters before the first null
\* character
RECURSIVE c_str_view(_)
c_str_view(s) ==
    IF s = << >> \/ Head(s) = NUL THEN << >> ELSE << Head(s) >> \o c_str_view(Tail(s))

\* from_string: from_string_view<EnumType>(str.c_str())
from_string(names, s) == from_string_view(names, c_str_view(s))

\* from_string_throw_if_unknown
from_string_throw_if_unknown(names, s) ==
    LET e == from_string(names, s)
    IN  [ e |-> e, thrown |-> e = unknown_value ]

\* to_string: the name of the first value equal to e, or that of the unknown
RECURSIVE to_string_loop(_, _, _)
to_string_loop(names, e, i) ==
    IF i >= Len(names) THEN names[1]
    ELSE IF e = values_with_unknown(i) THEN names[i + 1]
    ELSE to_string_loop(names, e, i + 1)

to_string(names, e) == to_string_loop(names, e, 0)

\* the declarations: an unknown and distinct names
Declarations(most, longest) ==
    { [ unknown |-> << "u" >>, names |-> n, separator |-> p ] :
      n \in { t \in UNION { [ 1 .. k -> Identifiers(longest) ] : k \in 1 .. most } :
              \A i, j \in DOMAIN t : i # j => t[i] # t[j] },
      p \in { << "," >>, << ",", " " >> } }

EnumUnchanged ==
    UNCHANGED << numstr_vars, compose_vars, eval_vars, index_vars, iter_vars, parser_vars,
                 reader_vars, yard_vars, pc, result, thrown, steps, fed, call, node_vars >>

InitEnum == InitCall

\* MPT_SMART_ENUM(enum_name, enum_properties_name, int, unknown, names ...)
DeclareEnum(d) ==
    /\ declaration = NoDeclaration
    /\ declaration' = d
    /\ names_with_unknown' = make_names(size_with_unknown(d), va_args_with_unknown(d))
    /\ converted' = NotConverted
    /\ EnumUnchanged

\* to_string(e) for a value of the enumeration
EnumToString(e) ==
    /\ declaration # NoDeclaration
    /\ e <= Len(declaration.names)
    /\ converted' = [ call |-> "to_string", str |-> to_string(names_with_unknown, e),
                      e |-> e, thrown |-> FALSE ]
    /\ UNCHANGED << declaration, names_with_unknown >>
    /\ EnumUnchanged

\* from_string<enum_name>(s)
EnumFromString(s) ==
    /\ declaration # NoDeclaration
    /\ converted' = [ call |-> "from_string", str |-> s,
                      e |-> from_string(names_with_unknown, s), thrown |-> FALSE ]
    /\ UNCHANGED << declaration, names_with_unknown >>
    /\ EnumUnchanged

\* from_string_throw_if_unknown<enum_name>(s)
EnumFromStringThrowIfUnknown(s) ==
    /\ declaration # NoDeclaration
    /\ LET v == from_string_throw_if_unknown(names_with_unknown, s)
       IN  converted' = [ call |-> "from_string_throw_if_unknown", str |-> s,
                          e |-> v.e, thrown |-> v.thrown ]
    /\ UNCHANGED << declaration, names_with_unknown >>
    /\ EnumUnchanged

\* the end of the program
DropEnum ==
    /\ declaration # NoDeclaration
    /\ declaration' = NoDeclaration
    /\ names_with_unknown' = << >>
    /\ converted' = NotConverted
    /\ EnumUnchanged

NextEnum ==
    \/ /\ declaration = NoDeclaration
       /\ \E d \in Declarations(MaxNames, MaxNameLen) : DeclareEnum(d)
    \/ \E e \in 0 .. MaxNames : EnumToString(e)
    \/ /\ declaration # NoDeclaration
       /\ \E s \in StdStrings(MaxNameLen + 1) : EnumFromString(s)
    \/ /\ declaration # NoDeclaration
       /\ \E s \in StdStrings(MaxNameLen + 1) : EnumFromStringThrowIfUnknown(s)
    \/ DropEnum

SpecEnum == InitEnum /\ [][NextEnum]_vars

\* the names the declaration gives to the values 0, 1, ...
DeclaredNames(d) == << d.unknown >> \o d.names
IsDeclaredName(d, s) == \E i \in DOMAIN DeclaredNames(d) : DeclaredNames(d)[i] = s

\* C19: from_string(to_string(e)) = e for every declared value e,
\* to_string(from_string(s)) = s for every declared name s, a string that is
\* not a declared name gives the unknown value, for which is_unknown holds,
\* and from_string_throw_if_unknown raises an error for it
C19_EnumRoundTrip ==
    declaration # NoDeclaration =>
        /\ converted.call = "to_string" =>
               /\ converted.str = DeclaredNames(declaration)[converted.e + 1]
               /\ from_string(names_with_unknown, converted.str) = converted.e
        /\ converted.call = "from_string" =>
               IF IsDeclaredName(declaration, converted.str)
               THEN to_string(names_with_unknown, converted.e) = converted.str
               ELSE converted.e = unknown_value /\ is_unknown(converted.e)
        /\ converted.call = "from_string_throw_if_unknown" =>
               IF IsDeclaredName(declaration, converted.str)
               THEN converted.e # unknown_value => ~converted.thrown
               ELSE converted.thrown

(***************************************************************************)
(* Claims about the cursor of the token reader                             *)
(***************************************************************************)
\* C20: a reader >> tk of the token loop on a reader whose cursor is before
\* the end of the input leaves the cursor further on, whatever character it
\* stood on; with the cursor at the end of the input it sets eofbit, assigns
\* no token and the token loop ends
C20_ReadAdvancesCursor ==
    [][ pc = "loop" =>
            IF m_it <= Len(view)
            THEN m_it' > m_it
            ELSE eofbit' /\ tk' = tk /\ pc' = "drain" ]_vars

(***************************************************************************)
(* Claims about function calls in the token loop                           *)
(***************************************************************************)
RECURSIVE Reversed(_)
Reversed(s) == IF s = << >> THEN << >> ELSE << s[Len(s)] >> \o Reversed(SubSeq(s, 1, Len(s) - 1))

\* index of the topmost left parenthesis of a stack, 0 if it holds none
RECURSIVE TopmostLeftParenthesis(_, _)
TopmostLeftParenthesis(s, i) ==
    IF i = 0 THEN 0
    ELSE IF s[i].kind = "left_parenthesis" THEN i
    ELSE TopmostLeftParenthesis(s, i - 1)

\* the tokens above index k of a stack, topmost first
PendingAbove(s, k) == Reversed(SubSeq(s, k + 1, Len(s)))

\* C21: in the token loop a function token is pushed to the operator stack;
\* a comma inside a parenthesis moves the operators above the topmost left
\* parenthesis to the output queue and keeps that parenthesis, and no comma
\* enters the queue; the right parenthesis that closes the arguments of a
\* function moves the pending operators and then the function to the queue
C21_FunctionCallPostfix ==
    [][ (pc = "loop" /\ fed' # fed) =>
            LET k == TopmostLeftParenthesis(operator_stack, Len(operator_stack))
            IN  /\ tk'.kind = "function" =>
                       /\ operator_stack' = Append(operator_stack, tk')
                       /\ output_queue' = output_queue
                /\ (tk'.kind = "comma" /\ k > 0) =>
                       /\ operator_stack' = SubSeq(operator_stack, 1, k)
                       /\ output_queue' = output_queue \o PendingAbove(operator_stack, k)
                /\ \A i \in DOMAIN output_queue' : output_queue'[i].kind # "comma"
                /\ (tk'.kind = "right_parenthesis" /\ k > 1
                        /\ operator_stack[k - 1].kind = "function") =>
                       /\ operator_stack' = SubSeq(operator_stack, 1, k - 2)
                       /\ output_queue' = output_queue \o PendingAbove(operator_stack, k)
                                              \o << operator_stack[k - 1] >> ]_vars

(***************************************************************************)
(* Claims about the number of runs of the token loop                       *)
(***************************************************************************)
\* end of the maximal run of digits that starts at index it
RECURSIVE DigitsEnd(_, _)
DigitsEnd(v, it) == IF it <= Len(v) /\ isdigit(v[it]) THEN DigitsEnd(v, it + 1) ELSE it

\* number of tokens the grammar finds in v from index it on: a number, an
\* identifier, or one character
RECURSIVE TokensFrom(_, _)
TokensFrom(v, it) ==
    LET start == skip_blanks(v, it)
    IN  IF start > Len(v) THEN 0
        ELSE IF isdigit(v[start]) THEN 1 + TokensFrom(v, DigitsEnd(v, start))
        ELSE IF isalpha(v[start]) \/ v[start] = "_"
        THEN 1 + TokensFrom(v, find_if_not_alnum(v, start + 1))
        ELSE 1 + TokensFrom(v, start + 1)

\* C22: when the token loop has ended its body has run once per token of the
\* input, and a token the reader delivers, the last one of the input too, is
\* processed by the body of the loop before the operator stack is drained
C22_LoopRunsOncePerToken ==
    /\ [](pc = "drain" => steps = TokensFrom(view, 1))
    /\ [][ (pc = "loop" /\ NextRead.thrown = "" /\ NextRead.delivered) =>
               (steps' = Inc(steps) /\ pc' # "drain") ]_vars

(***************************************************************************)
(* Claims about the cursor after an identifier                             *)
(***************************************************************************)
\* C23: a read that starts at an identifier and returns a token has looked up
\* the maximal run of letters, digits and underscores at the cursor, and
\* leaves the cursor at the first character after that run
C23_IdentifierConsumedWhole ==
    [][ AtIdentifier =>
            LET start == skip_blanks(view, m_it)
                name == IdentifierFrom(view, start)
                r == parse_functor_or_function(view, start, functor_map, function_map)
            IN  r.thrown = "" =>
                    /\ r.tk \in { functor_token(functor_map[n]) : n \in DOMAIN functor_map \cap {name} }
                               \cup { function_token(function_map[n]) :
                                      n \in DOMAIN function_map \cap {name} }
                    /\ m_it' = start + Len(name) ]_vars

(***************************************************************************)
(* SpecOperator: parse() on texts written with operator characters         *)
(***************************************************************************)
\* The operator types and the characters each one is written with
all_operators ==
    { [ chars |-> "+", symbol |-> << "+" >> ],
      [ chars |-> "-", symbol |-> << "-" >> ],
      [ chars |-> "*", symbol |-> << "*" >> ],
      [ chars |-> "/", symbol |-> << "/" >> ],
      [ chars |-> "%", symbol |-> << "%" >> ],
      [ chars |-> "<", symbol |-> << "<" >> ],
      [ chars |-> "<=", symbol |-> << "<", "=" >> ],
      [ chars |-> ">", symbol |-> << ">" >> ],
      [ chars |-> ">=", symbol |-> << ">", "=" >> ],
      [ chars |-> "==", symbol |-> << "=", "=" >> ],
      [ chars |-> "!=", symbol |-> << "!", "=" >> ],
      [ chars |-> "&&", symbol |-> << "&", "&" >> ],
      [ chars |-> "||", symbol |-> << "|", "|" >> ],
      [ chars |-> "!", symbol |-> << "!" >> ],
      [ chars |-> "&", symbol |-> << "&" >> ],
      [ chars |-> "|", symbol |-> << "|" >> ],
      [ chars |-> "^", symbol |-> << "^" >> ],
      [ chars |-> "~", symbol |-> << "~" >> ],
      [ chars |-> "<<", symbol |-> << "<", "<" >> ],
      [ chars |-> ">>", symbol |-> << ">", ">" >> ] }

OperatorAlphabet == {"<", "=", "&", "+", "x", " "}

OperatorTexts(longest) == UNION { StringsOfLength(OperatorAlphabet, n) : n \in 0 .. longest }

NextOperator ==
    \/ \E text \in OperatorTexts(MaxLen) : Parse(text)
    \/ Finish
    \/ ReadThrows
    \/ AssignTraps
    \/ LoopEnds
    \/ LoopBody
    \/ Drain

SpecOperator == Init /\ [][NextOperator]_vars

\* the operators whose symbol the text has at index it
SymbolsAt(v, it) ==
    { op \in all_operators :
        /\ it + Len(op.symbol) - 1 <= Len(v)
        /\ SubSeq(v, it, it + Len(op.symbol) - 1) = op.symbol }

LongestSymbolAt(v, it) ==
    CHOOSE op \in SymbolsAt(v, it) :
        \A other \in SymbolsAt(v, it) : Len(other.symbol) <= Len(op.symbol)

\* C24: a read that starts at the symbol of an operator gives the operator of
\* the longest symbol the remaining input starts with, and moves the cursor
\* by the length of that symbol
C24_LongestOperatorMatch ==
    [][ (pc = "loop" /\ SymbolsAt(view, skip_blanks(view, m_it)) # {}) =>
            LET start == skip_blanks(view, m_it)
                op == LongestSymbolAt(view, start)
            IN  /\ tk'.kind = "operator"
                /\ tk'.name = op.chars
                /\ m_it' = start + Len(op.symbol) ]_vars

(***************************************************************************)
(* Claims about the payloads of run-time nodes                             *)
(***************************************************************************)
\* the constructed objects that point to payload p
Owners(p) == { n \in NodeNames : nodes[n].alive /\ nodes[n].m_ptr = p }

\* C25: no payload is deleted twice and every payload that was allocated and
\* not deleted belongs to one constructed object, so that the destructors
\* free each payload once; an assignment deletes the payload the target held
\* and leaves the target with a live payload
C25_PayloadsFreedOnce ==
    /\ [](pc # "crashed" =>
            \A p \in PayloadIds :
                heap[p].allocated =>
                    /\ heap[p].frees <= 1
                    /\ heap[p].frees = 0 => Cardinality(Owners(p)) = 1)
    /\ [][ pc' # "crashed" =>
               \A n \in HostNodes :
                   (nodes[n].alive /\ nodes'[n].alive /\ nodes'[n].m_ptr # nodes[n].m_ptr
                        /\ nodes'[n].m_ptr # 0 /\ nodes[n].m_ptr # 0) =>
                       /\ heap'[nodes[n].m_ptr].frees = 1
                       /\ Live(heap', nodes'[n].m_ptr) ]_vars

\* C26: every constructed run-time node, one that was moved from too, points
\* to a payload: no constructed object holds a null pointer
C26_NodeOwnsPayload ==
    \A n \in NodeNames : nodes[n].alive => nodes[n].m_ptr # 0

\* C27: an assignment of a run-time node to itself reads no payload that was
\* deleted: no payload is ever read or cloned after its delete
C27_SelfAssignmentSafe ==
    \A p \in PayloadIds : ~heap[p].stale

(***************************************************************************)
(* Claims about the values arithmetic_value_from_str returns               *)
(***************************************************************************)
\* the number the digits t[i], ..., t[i + n - 1] write, read from left to right
RECURSIVE DecimalValue(_, _, _)
DecimalValue(t, i, n) ==
    IF n = 0 THEN 0 ELSE 10 * DecimalValue(t, i, n - 1) + digit_value(t[i + n - 1])

IntegralTypes ==
    { "int", "long int", "long long int", "unsigned int", "unsigned long int",
      "unsigned long long int" }

\* the exponent a literal without sign characters writes, 0 if it has none
WrittenExponent(t) ==
    LET f == Form(t)
        m == f.digits + f.points
        minus == m + 2 <= Len(t) /\ t[m + 2] = "-"
        first == IF m + 2 <= Len(t) /\ t[m + 2] \in {"-", "+"} THEN m + 3 ELSE m + 2
    IN  IF ~f.exponent THEN 0
        ELSE (IF minus THEN -1 ELSE 1) * DecimalValue(t, first, f.exponent_digits)

\* C28: for a literal that is viewed whole and for which a value is returned,
\* the value of an integer literal is the number its digits write from left
\* to right, and the exponent of a floating-point literal is the number the
\* digits of its exponent write from left to right
C28_DigitsReadLeftToRight ==
    (number.outcome = "returns" /\ size = Len(str) /\ TypeOfForm(Form(Viewed)) # "") =>
        /\ TypeOfForm(Form(Viewed)) \in IntegralTypes =>
               number.value = DecimalValue(Viewed, 1, Form(Viewed).digits)
        /\ Form(Viewed).exponent => number.exponent = WrittenExponent(Viewed)

\* number of '-' characters at the start of t
RECURSIVE LeadingMinus(_, _)
LeadingMinus(t, i) == IF i <= Len(t) /\ t[i] = "-" THEN 1 + LeadingMinus(t, i + 1) ELSE 0

\* C29: the value returned for a signed integer literal or a floating-point
\* literal written after an odd number of '-' characters is the negation of
\* the value returned for the literal alone, and after an even number of '-'
\* characters it is that value
C29_SignApplied ==
    (number.outcome = "returns" /\ size = Len(str)) =>
        LET k == LeadingMinus(Viewed, 1)
            literal == SubSeq(Viewed, k + 1, Len(Viewed))
            plain == arithmetic_value_from_str(literal, Len(literal))
        IN  (/\ TypeOfForm(Form(literal)) \in {"int", "long int", "long long int", "float",
                                               "double", "long double"}
             /\ plain.outcome = "returns") =>
                /\ number.type = plain.type
                /\ number.value = IF k % 2 = 1 THEN -plain.value ELSE plain.value

(***************************************************************************)
(* SpecShift: arithmetic on the iterators of an indexed container          *)
(***************************************************************************)
MaxShift == 3      \* largest number added to or subtracted from an iterator

\* indexed_iterator_traits<IteratorDirection>::prev
prev(direction, index) ==
    IF direction = "backward" THEN increase(index) ELSE decrease(index)

\* operator+=(size_type v) and operator-=(size_type v) on the unsigned m_pos
plus_assign(pos, v) == (pos + v) % (SizeTypeMax + 1)
minus_assign(pos, v) == (pos + (SizeTypeMax + 1) - v) % (SizeTypeMax + 1)

\* operator-(base_indexed_container_iterator const &other)
difference(direction, pos, other) ==
    IF direction = "forward"
    THEN minus_assign(pos, other)
    ELSE minus_assign(other, pos)

\* m_pos of the iterators from the first to the past-the-end one, for a
\* container of n elements
IteratorPositions(direction, n) ==
    IF direction = "forward"
    THEN proxy_begin(n) .. proxy_end(n)
    ELSE 0 .. (n - 1) \cup { proxy_rend(n) }

InitShift == InitCall

\* an iterator of the proxy of a container of n elements
MakeIterator(direction, n, pos) ==
    /\ container = NoContainer
    /\ container' = [ size |-> n, direction |-> direction ]
    /\ m_pos' = pos
    /\ shift' = NoShift
    /\ UNCHANGED << last, visited >>
    /\ ShiftUnchanged

\* it + v: a copy of the iterator, then += v
Plus(v) ==
    /\ container # NoContainer
    /\ shift = NoShift
    /\ shift' = [ op |-> "plus", v |-> v, to |-> plus_assign(m_pos, v) ]
    /\ UNCHANGED << container, m_pos, last, visited >>
    /\ ShiftUnchanged

\* it - v: a copy of the iterator, then -= v
Minus(v) ==
    /\ container # NoContainer
    /\ shift = NoShift
    /\ shift' = [ op |-> "minus", v |-> v, to |-> minus_assign(m_pos, v) ]
    /\ UNCHANGED << container, m_pos, last, visited >>
    /\ ShiftUnchanged

\* (it + v) - it
Difference(v) ==
    /\ container # NoContainer
    /\ shift = NoShift
    /\ shift' = [ op |-> "difference", v |-> v,
                  to |-> difference(container.direction, plus_assign(m_pos, v), m_pos) ]
    /\ UNCHANGED << container, m_pos, last, visited >>
    /\ ShiftUnchanged

\* the iterators go out of scope
DropIterator ==
    /\ container # NoContainer
    /\ container' = NoContainer
    /\ m_pos' = 0
    /\ shift' = NoShift
    /\ UNCHANGED << last, visited >>
    /\ ShiftUnchanged

NextShift ==
    \/ /\ container = NoContainer
       /\ \E direction \in {"forward", "backward"}, n \in 0 .. MaxElements :
              \E pos \in IteratorPositions(direction, n) : MakeIterator(direction, n, pos)
    \/ \E v \in 0 .. MaxShift : Plus(v)
    \/ \E v \in 0 .. MaxShift : Minus(v)
    \/ \E v \in 0 .. MaxShift : Difference(v)
    \/ DropIterator

SpecShift == InitShift /\ [][NextShift]_vars

\* m_pos after k applications of ++ and of -- to an iterator at index
RECURSIVE Incremented(_, _, _)
Incremented(direction, index, k) ==
    IF k = 0 THEN index ELSE next(direction, Incremented(direction, index, k - 1))

RECURSIVE Decremented(_, _, _)
Decremented(direction, index, k) ==
    IF k = 0 THEN index ELSE prev(direction, Decremented(direction, index, k - 1))

\* C30: for forward and backward iterators it + k is the iterator that k
\* applications of ++ give, it - k the one that k applications of -- give,
\* and (it + k) - it is k
C30_IteratorArithmetic ==
    /\ shift.op = "plus" => shift.to = Incremented(container.direction, m_pos, shift.v)
    /\ shift.op = "minus" => shift.to = Decremented(container.direction, m_pos, shift.v)
    /\ shift.op = "difference" => shift.to = shift.v

====
